---------------------------- MODULE Spec2Model ----------------------------
(***************************************************************************)
(* plc-remedy: the monitoring-and-remediation decision engine.             *)
(*                                                                         *)
(*   app/monitor.py     MonitorService: poll loop, threshold evaluation,   *)
(*                      violation table, event log                         *)
(*   app/api/routes.py  manual remediation triggers, the cooldown timers,  *)
(*                      the job table and the pruning of the timers        *)
(*   run.py             remediation_hook, the auto-remediation path        *)
(*                                                                         *)
(* Time is a discrete clock `now` (one tick = one abstract time unit).     *)
(* Python's None is the string None; a dict is a function whose DOMAIN is  *)
(* the set of keys present; an Optional[datetime] is a sequence of length  *)
(* 0 or 1.  Python's bool is an int subtype (True == 1), so a bool tag     *)
(* value is 1 or 0.                                                        *)
(***************************************************************************)
EXTENDS Integers, Sequences, FiniteSets, TLC

\* ------------------------------------------------------------------ bounds
\* The clock stops at MaxTime (at MonitorMaxTime where only the monitor runs and
\* time is read for timestamps alone).
MaxTime == 3
MonitorMaxTime == 2
\* The monitor loop runs at most MaxCycles poll cycles (ScenarioCycles with one
\* tag configured, GateCycles where the remediation requests run beside it).
MaxCycles == 3
ScenarioCycles == 5
GateCycles == 1
\* The consecutive violating reads of a tag are counted up to StreakCap.
StreakCap == 3
\* At most MaxJobs remediation jobs are launched.
MaxJobs == 2
\* At most MaxLoops monitor loop tasks are alive at a time.
MaxLoops == 2
\* The clock of the chaos engine stops at ChaosMaxTime; at most MaxInjections
\* injections are recorded.
ChaosMaxTime == 3
MaxInjections == 2
\* Beside the status queries the monitor loop runs at most StatsCycles cycles.
StatsCycles == 2
\* Across its starts and stops the monitor publishes at most LifecycleReads
\* reads.
LifecycleReads == 1
\* The clock of the connection-loss simulation stops at LossMaxTime; at most
\* MaxTimers reversal timers are pending.
LossMaxTime == 4
MaxTimers == 2
\* With the remediation hook registered the loop runs at most AutoCycles cycles.
AutoCycles == 3
\* With a device whose connectivity changes the loop runs at most CycleCycles
\* cycles.
CycleCycles == 2
\* With both tags and the remediation hook the loop runs at most HookCycles
\* cycles.
HookCycles == 2
\* With the chaos engine assembled beside it the loop runs at most InjectCycles
\* cycles.
InjectCycles == 2

\* --------------------------------------------------------- program constants
\* deque(maxlen=1000) of monitor.py:52, scaled to a small ring buffer.
EventsMaxLen == 3
\* The 3600 s retention of cooldown entries (routes.py:452), in clock ticks.
CooldownRetention == 2

\* JOB_STATUS_CHECK_INTERVAL_SECONDS (routes.py:26), in clock ticks, and
\* MAX_JOBS_TO_CHECK (routes.py:467).
JOB_STATUS_CHECK_INTERVAL_SECONDS == 2
MAX_JOBS_TO_CHECK == 10

\* STARTUP_GRACE_PERIOD_SECONDS (chaos.py:16) and
\* TAG_INJECTION_COOLDOWN_SECONDS (chaos.py:19), in clock ticks.
STARTUP_GRACE_PERIOD_SECONDS == 1
TAG_INJECTION_COOLDOWN_SECONDS == 2

None == "None"

\* ------------------------------------------------------------ configuration
\* config.tags of the test fixture (tests/test_monitor.py:17-33), in dict order.
TagOrder == <<"light", "motor_speed">>

TagConfigs ==
    [ light |->
        [ name |-> "Light_Status", type |-> "bool", nominal |-> 1,
          failure_condition |-> "equals", failure_value |-> <<0>>,
          failure_threshold_low |-> <<>>, failure_threshold_high |-> <<>> ],
      motor_speed |->
        [ name |-> "Motor_Speed", type |-> "int", nominal |-> 1750,
          failure_condition |-> "outside_range", failure_value |-> <<>>,
          failure_threshold_low |-> <<1500>>, failure_threshold_high |-> <<2000>> ] ]

\* The values a device read of a tag may deliver.
ReadValues(tag) ==
    IF tag = "light" THEN {0, 1} ELSE {1000, 1750, 2500}

\* The tag sets a run may be configured with.
TagSets == { {"light", "motor_speed"} }

\* cooldown_seconds is any int the configuration gives (config.py:365-370):
\* one value below the retention window and one above it.
CooldownChoices == {2, 4}

\* AAPConfig.job_templates: the actions that have a template.
JobTemplates == {"emergency_reset", "emergency_stop"}

Actions == {"reset", "restart"}

\* The tag_name a manual request may carry (request JSON, routes.py:258-260).
RequestTags == {"motor_speed", None}

Workers == {"w1", "w2"}

\* The concurrent callers of the chaos injection hook.
Callers == {"h1", "h2"}

\* random.randint(1, 180) of chaos.py:201, in clock ticks: one duration below the
\* injection cooldown and one that reaches it.
AnomalyDurations == {1, 2}

\* failure_injection_rate in tenths (0.1 of tests/test_chaos.py:14, and 1.0) and
\* the values random.random() may deliver in [0.0, 1.0), in tenths.
InjectionRates == {1, 10}
RandomDraws == {0, 5}

\* The raw values the hook is called with.
\* duration_seconds of inject_connection_loss, in clock ticks.
LossDurations == {1, 2}

HookValues(tag) ==
    IF tag = "light" THEN {0, 1} ELSE {1750, 2500}

\* The monitor loop tasks (threads or greenlets) that may be alive.
LoopIds == 1..MaxLoops

VARIABLES
    now,                    \* datetime.now()
    config,                 \* AppConfig: tags, auto_remediate, cooldown_seconds
    plc_connected,          \* PLCClient.is_connected()
    running,                \* MonitorService._running
    active_violations,      \* MonitorService._active_violations (dict tag -> object)
    violations,             \* the ThresholdViolation objects created so far
    total_violations,       \* MonitorService._total_violations
    total_reads,            \* MonitorService._total_reads
    current_values,         \* MonitorService._current_values
    last_connection_state,  \* MonitorService._last_connection_state
    events,                 \* MonitorService._events
    eventlet_available,     \* EVENTLET_AVAILABLE of monitor.py:10-15
    thread,                 \* MonitorService._thread: 0 for None, or the loop task it refers to
    lock,                   \* MonitorService._lock: None when free, or its holder
    loop,                   \* per monitor loop task: its position and locals
    ev,                     \* per tag: the locals of its latest _evaluate_threshold call
    hook,                   \* the arguments and locals of the latest remediation_hook call
    remediation_jobs,       \* routes._remediation_jobs
    last_remediation_time,  \* routes._last_remediation_time (dict tag -> datetime)
    last_remediation_time_global, \* routes._last_remediation_time_global
    req,                    \* per API worker: the _trigger_remediation call in progress
    trace,                  \* the evaluated reads of motor_speed and the active count after each
    probe,                  \* one _evaluate_threshold verdict: its tag_config, value and result
    load,                   \* one _validate_tag_config call: its tag_data and its outcome
    query,                  \* per API worker: the status query of the monitor in progress
    last_job_status_check,  \* routes._last_job_status_check (dict job -> datetime)
    status_call,            \* per API worker: the get_remediation_status call in progress
    chaos_config,           \* ChaosEngine.config: failure_injection_rate, failure_types
    chaos_enabled,          \* ChaosEngine._enabled
    chaos_start_time,       \* ChaosEngine._start_time
    active_value_anomalies, \* ChaosEngine._active_value_anomalies (dict tag -> anomaly)
    injection_history,      \* ChaosEngine._injection_history
    last_injection_time,    \* ChaosEngine._last_injection_time (dict tag -> datetime)
    chaos_call,             \* per caller: the _inject_value_anomaly call in progress
    connection_lost,        \* ChaosEngine._connection_lost
    connection_loss_end_time, \* ChaosEngine._connection_loss_end_time
    restore_timers,         \* the restore_connection threads asleep: when each wakes
    loss_call               \* the latest inject_connection_loss and is_connection_lost calls

\* The variables the monitor's own actions leave alone.
lossVars == << connection_lost, connection_loss_end_time, restore_timers,
              loss_call >>

chaosVars == << chaos_config, chaos_enabled, chaos_start_time,
               active_value_anomalies, injection_history, last_injection_time,
               chaos_call, lossVars >>

statusVars == << last_job_status_check, status_call >>

extVars == << lock, probe, load, query, statusVars, chaosVars >>

vars == << now, config, plc_connected, running, active_violations, violations,
           total_violations, total_reads, current_values, last_connection_state,
           events, eventlet_available, thread, loop, ev, hook, remediation_jobs,
           last_remediation_time, last_remediation_time_global, req, trace,
           extVars >>

\* ------------------------------------------------------------------ helpers
\* deque.append with maxlen: the oldest entry is evicted first.
DequeAppend(q, e, maxlen) ==
    IF Len(q) < maxlen THEN Append(q, e) ELSE Append(Tail(q), e)

RECURSIVE DequeExtend(_, _, _)
DequeExtend(q, es, maxlen) ==
    IF es = <<>> THEN q
    ELSE DequeExtend(DequeAppend(q, Head(es), maxlen), Tail(es), maxlen)

\* d[k] = v of a dict.
DictPut(d, k, v) ==
    [ x \in (DOMAIN d) \cup {k} |-> IF x = k THEN v ELSE d[x] ]

\* del d[k] for every k in ks.
DictDrop(d, ks) ==
    [ x \in (DOMAIN d) \ ks |-> d[x] ]

EmptyDict == [ x \in {} |-> 0 ]


\* --------------------------------------------------------------- evaluator
IsSet(opt) == Len(opt) > 0

\* `value <= threshold` in place of the comparison of monitor.py:287 and 296.
Below_OrEqual(value, threshold) == value <= threshold

\* `value < tag_config.failure_threshold_low` (monitor.py:287, 296).
Below(value, threshold) == value < threshold

\* `value >= threshold` in place of the comparison of monitor.py:291 and 301.
Above_OrEqual(value, threshold) == value >= threshold

\* `value > tag_config.failure_threshold_high` (monitor.py:291, 301).
Above(value, threshold) == value > threshold

\* The verdict of _evaluate_threshold for one value (monitor.py:270-303):
\* <<violation, violation_reason>>.  A value read from the device is never None,
\* so `value == tag_config.failure_value` is false when failure_value is None.
Evaluate(tag_config, value) ==
    CASE tag_config.failure_condition = "equals" ->
           IF IsSet(tag_config.failure_value) /\ value = tag_config.failure_value[1]
           THEN <<TRUE, "equals">> ELSE <<FALSE, "">>
      [] tag_config.failure_condition = "not_equals" ->
           IF value # tag_config.nominal
           THEN <<TRUE, "not_equals">> ELSE <<FALSE, "">>
      [] tag_config.failure_condition = "outside_range" ->
           IF IsSet(tag_config.failure_threshold_low)
              /\ Below(value, tag_config.failure_threshold_low[1])
           THEN <<TRUE, "below">>
           ELSE IF IsSet(tag_config.failure_threshold_high)
                   /\ Above(value, tag_config.failure_threshold_high[1])
                THEN <<TRUE, "above">> ELSE <<FALSE, "">>
      [] tag_config.failure_condition = "below" ->
           IF IsSet(tag_config.failure_threshold_low)
              /\ Below(value, tag_config.failure_threshold_low[1])
           THEN <<TRUE, "below">> ELSE <<FALSE, "">>
      [] tag_config.failure_condition = "above" ->
           IF IsSet(tag_config.failure_threshold_high)
              /\ Above(value, tag_config.failure_threshold_high[1])
           THEN <<TRUE, "above">> ELSE <<FALSE, "">>
      [] OTHER -> <<FALSE, "">>

\* ------------------------------------------------------------ violation table
\* The check of monitor.py:310 left out: every violating read counts as new.
IsNewViolation_Unchecked(tag_name) == TRUE

\* `tag_name not in self._active_violations` (monitor.py:310).
IsNewViolation(tag_name) == tag_name \notin DOMAIN active_violations

\* `tag_name in self._active_violations` (monitor.py:365).
HasTrackedViolation(tag_name) == tag_name \in DOMAIN active_violations

\* ThresholdViolation(...) of monitor.py:314-320.
NewViolation(tag_name, value, timestamp) ==
    [ tag_name |-> tag_name,
      expected_value |-> TagConfigs[tag_name].nominal,
      actual_value |-> value,
      failure_condition |-> TagConfigs[tag_name].failure_condition,
      timestamp |-> timestamp,
      resolved |-> FALSE,
      resolved_at |-> <<>> ]

\* get_active_violations(): the unresolved objects the table refers to.
GetActiveViolations ==
    { i \in { active_violations[t] : t \in DOMAIN active_violations } :
        ~violations[i].resolved }

\* The count without the `if not v.resolved` filter of monitor.py:477.
ActiveViolationCount_Unfiltered == Cardinality(DOMAIN active_violations)

\* len(self.get_active_violations()) as get_statistics reports it.
ActiveViolationCount == Cardinality(GetActiveViolations)

\* ------------------------------------------------------------------- events
TagReadEvent(tag_name, value) ==
    [ event_type |-> "tag_read", tag_name |-> tag_name,
      data |-> [ tag_name |-> tag_name, value |-> value, success |-> TRUE ] ]

TagReadErrorEvent(tag_name) ==
    [ event_type |-> "tag_read", tag_name |-> tag_name,
      data |-> [ tag_name |-> tag_name, error |-> "read failed" ] ]

ViolationEvent(tag_name, value, reason) ==
    [ event_type |-> "threshold_violation", tag_name |-> tag_name,
      data |-> [ tag_name |-> tag_name, actual_value |-> value, reason |-> reason ] ]

ResolutionEvent(tag_name) ==
    [ event_type |-> "threshold_violation", tag_name |-> tag_name,
      data |-> [ tag_name |-> tag_name, resolved |-> TRUE ] ]

ConnectionEvent_Lost(connected) ==
    [ event_type |-> "connection_lost",
      tag_name |-> None, data |-> [ message |-> "connection" ] ]

ConnectionEvent(connected) ==
    [ event_type |-> IF connected THEN "connection_restored" ELSE "connection_lost",
      tag_name |-> None, data |-> [ message |-> "connection" ] ]

\* _emit_event: the event is appended to the ring buffer.
EmitEvent(q, e) == DequeAppend(q, e, EventsMaxLen)

\* ------------------------------------------------------------ cooldown gate
\* _is_tag_in_remediation_cooldown: <<is_in_cooldown, remaining>>.
IsTagInRemediationCooldown(tag_name) ==
    LET cooldown == config.cooldown_seconds IN
    IF tag_name # None
    THEN IF tag_name \in DOMAIN last_remediation_time
            /\ now - last_remediation_time[tag_name] < cooldown
         THEN <<TRUE, cooldown - (now - last_remediation_time[tag_name])>>
         ELSE <<FALSE, 0>>
    ELSE IF Len(last_remediation_time_global) > 0
            /\ now - last_remediation_time_global[1] < cooldown
         THEN <<TRUE, cooldown - (now - last_remediation_time_global[1])>>
         ELSE <<FALSE, 0>>

\* The remediation job record of routes.py:352-359 and run.py:198-205; the key
\* 'end_time' is absent until a status poll finds the job finished.
RemediationJob(action, tag_name) ==
    [ job_id |-> Len(remediation_jobs) + 1, action_type |-> action,
      status |-> "pending", start_time |-> now, tag_name |-> tag_name,
      end_time |-> <<>> ]

\* The cooldown update of routes.py:364-370 and run.py:213-219.
RecordTrigger(tag_name) ==
    IF tag_name # None
    THEN /\ last_remediation_time' = DictPut(last_remediation_time, tag_name, now)
         /\ UNCHANGED last_remediation_time_global
    ELSE /\ last_remediation_time_global' = <<now>>
         /\ UNCHANGED last_remediation_time

\* `template_key in config.aap.job_templates` with template_key = f'emergency_{action}'.
HasTemplate(action) == ("emergency_" \o action) \in JobTemplates

\* The tag key the monitor hands to the remediation hook (monitor.py:346:
\* `self._remediation_hook('reset')`, so the hook's tag_name takes its default).
HookTagArgument(tag_name) == None


\* ---------------------------------------------------------------------- Init
NoCall == [ tag_name |-> None, value |-> 0, violation |-> FALSE,
            violation_reason |-> "", is_new_violation |-> FALSE,
            should_emit |-> FALSE, hook_called |-> FALSE, streak |-> 0 ]

NoHook == [ calls |-> 0, action |-> None, tag_name |-> None, for_tag |-> None,
            is_in_cooldown |-> FALSE, job |-> 0 ]

\* A loop task that is not alive.  `cycles` counts the cycles of the task that
\* published their reads; `error` tells that the task's latest cycle
\* ended in the `except` of monitor.py:145; `retired` that a stop() which was to
\* end the task has returned; `chaos_at_read` that the chaos engine was enabled
\* when the task's latest batch read was made.
IdleLoop == [ pc |-> "stopped", threshold_evaluations |-> <<>>,
              events_to_emit |-> <<>>, values_to_store |-> EmptyDict,
              cycles |-> 0, error |-> FALSE, retired |-> FALSE,
              chaos_at_read |-> FALSE ]

\* No _inject_value_anomaly call in progress.
IdleCall == [ pc |-> "idle", tag_name |-> None, value |-> 0, injected_value |-> 0,
              end_time |-> 0, result |-> 0, evicted |-> FALSE, raced |-> <<>> ]

\* No inject_connection_loss call has returned, no is_connection_lost call.
NoLossCall == [ fresh |-> FALSE, at |-> 0, applied |-> FALSE, end |-> 0,
                queried |-> FALSE, result |-> FALSE ]

\* No simulated connection loss (chaos.py:58-60).
NoLoss ==
    /\ connection_lost = FALSE
    /\ connection_loss_end_time = <<>>
    /\ restore_timers = <<>>
    /\ loss_call = NoLossCall

\* ChaosEngine.__init__ (chaos.py:33-58) of an engine whose hook is not called.
NoChaos ==
    /\ NoLoss
    /\ chaos_config = [ failure_injection_rate |-> 1,
                        failure_types |-> {"value_anomaly", "network_timeout"} ]
    /\ chaos_enabled = FALSE
    /\ chaos_start_time = 0
    /\ active_value_anomalies = EmptyDict
    /\ injection_history = <<>>
    /\ last_injection_time = EmptyDict
    /\ chaos_call = [ c \in Callers |-> IdleCall ]

NoProbe == [ tag_config |-> TagConfigs["motor_speed"], value |-> 0,
             evaluated |-> FALSE, violation |-> FALSE, violation_reason |-> "" ]

\* No tag data under validation.
NoLoad == [ pc |-> "none", keys |-> {}, failure_condition |-> None,
            tag_config |-> TagConfigs["motor_speed"] ]

\* No status query in progress.
IdleQuery == [ pc |-> "idle", method |-> None, result |-> EmptyDict ]

\* No get_remediation_status call in progress.
IdleStatusCall == [ pc |-> "idle", jobs_to_check |-> <<>>, at |-> 0,
                    old_status |-> None, status_code |-> 0 ]

IdleRequest == [ pc |-> "idle", action |-> None, tag_name |-> None,
                 status_code |-> 0, remaining |-> 0 ]

\* The state after MonitorService.__init__ (monitor.py:37-70), the module
\* globals of routes.py:22-24 and init_api.
InitState ==
    /\ now = 0
    /\ plc_connected \in BOOLEAN
    /\ running = FALSE
    /\ active_violations = EmptyDict
    /\ violations = <<>>
    /\ total_violations = 0
    /\ total_reads = 0
    /\ current_values = EmptyDict
    /\ last_connection_state = FALSE
    /\ events = <<>>
    /\ thread = 0
    /\ lock = None
    /\ query = [ w \in Workers |-> IdleQuery ]
    /\ last_job_status_check = EmptyDict
    /\ status_call = [ w \in Workers |-> IdleStatusCall ]
    /\ loop = [ l \in LoopIds |-> IdleLoop ]
    /\ ev = [ t \in DOMAIN TagConfigs |-> NoCall ]
    /\ hook = NoHook
    /\ remediation_jobs = <<>>
    /\ last_remediation_time = EmptyDict
    /\ last_remediation_time_global = <<>>
    /\ req = [ w \in Workers |-> IdleRequest ]
    /\ trace = [ live |-> TRUE, counts |-> <<>> ]

\* ------------------------------------------------------------------ monitor
\* The loop tasks that are not alive, and the one a new task takes.
FreeLoops == { l \in LoopIds : loop[l].pc = "stopped" }

NewLoop == CHOOSE l \in FreeLoops : \A k \in FreeLoops : l <= k

\* MonitorService.start (monitor.py:89-118): the loop task is a greenlet or a
\* thread (monitor.py:112-118).
Start ==
    IF running
    THEN UNCHANGED vars
    ELSE /\ lock = None
         /\ FreeLoops # {}
         /\ running' = TRUE
         /\ last_connection_state' = plc_connected
         /\ events' = EmitEvent(events, ConnectionEvent(plc_connected))
         /\ thread' = NewLoop
         /\ loop' = [ loop EXCEPT ![NewLoop] = [ IdleLoop EXCEPT !.pc = "read" ] ]
         /\ UNCHANGED << extVars, eventlet_available, now, config, plc_connected,
                         active_violations, violations,
                         total_violations, total_reads, current_values, ev, hook,
                         remediation_jobs, last_remediation_time,
                         last_remediation_time_global, req, trace >>

\* The tags of the configuration in dict order.
ConfiguredTags == SelectSeq(TagOrder, LAMBDA t : t \in config.tags)

\* One TagResult per configured tag: a successful read of a value, or a failure.
ReadResults ==
    { r \in [ config.tags -> [ success : BOOLEAN, value : {0, 1, 1000, 1750, 2500} ] ] :
        \A t \in config.tags :
            IF r[t].success THEN r[t].value \in ReadValues(t) ELSE r[t].value = 0 }

\* Every result taken for evaluation, failed or not.
IsEvaluated_Always(result) == TRUE

\* `if result.success` (monitor.py:190): only a successful read is queued for
\* threshold evaluation (monitor.py:206).
IsEvaluated(result) == result.success

RECURSIVE ThresholdEvaluations(_, _)
ThresholdEvaluations(tags, results) ==
    IF tags = <<>> THEN <<>>
    ELSE LET t == Head(tags) IN
         ( IF IsEvaluated(results[t])
           THEN << [ tag_name |-> t, value |-> results[t].value, timestamp |-> now ] >>
           ELSE <<>> ) \o ThresholdEvaluations(Tail(tags), results)

RECURSIVE EventsToEmit(_, _)
EventsToEmit(tags, results) ==
    IF tags = <<>> THEN <<>>
    ELSE LET t == Head(tags) IN
         << IF results[t].success THEN TagReadEvent(t, results[t].value)
            ELSE TagReadErrorEvent(t) >> \o EventsToEmit(Tail(tags), results)

\* _monitor_loop's `while self._running` and _poll_cycle up to the publication of
\* the results (monitor.py:142-231).  No chaos hook is installed.
PollRead(l, max_cycles) ==
    /\ loop[l].pc = "read"
    /\ running
    /\ lock = None
    /\ loop[l].cycles < max_cycles
    /\ \E results \in ReadResults :
         /\ current_values' =
              [ t \in (DOMAIN current_values) \cup config.tags |->
                  IF t \in config.tags
                  THEN [ value |-> results[t].value, success |-> results[t].success ]
                  ELSE current_values[t] ]
         /\ total_reads' = total_reads + Cardinality(config.tags)
         /\ loop' = [ loop EXCEPT ![l] =
                      [ pc |-> "eval",
                        threshold_evaluations |->
                            ThresholdEvaluations(ConfiguredTags, results),
                        events_to_emit |-> EventsToEmit(ConfiguredTags, results),
                        values_to_store |-> EmptyDict,
                        cycles |-> loop[l].cycles + 1,
                        error |-> FALSE,
                        retired |-> loop[l].retired,
                        chaos_at_read |-> chaos_enabled ] ]
    /\ UNCHANGED << extVars, eventlet_available, thread, now, config, plc_connected, running, active_violations,
                    violations, total_violations, last_connection_state, events,
                    ev, hook, remediation_jobs, last_remediation_time,
                    last_remediation_time_global, req, trace >>


\* The reads of Scenario A (spec section 8), evaluated in this order.
ScenarioA == << 1750, 1750, 2500, 2500, 1750 >>

\* The hook invoked on every violating read.
CallsRemediationHook_EveryViolation(violation, is_new_violation) ==
    violation /\ config.auto_remediate

\* `is_new_violation and self.config.remediation.auto_remediate and
\* self._remediation_hook` inside `if violation` (monitor.py:306, 341); run.py:235
\* registers the hook before the monitor is started.
CallsRemediationHook(violation, is_new_violation) ==
    violation /\ is_new_violation /\ config.auto_remediate

\* One call of _evaluate_threshold (monitor.py:259-381) from the loop of
\* monitor.py:234-235, up to the point where the remediation hook waits for
\* launch_job (run.py:148-188).
EvaluateThreshold(l) ==
    /\ loop[l].pc = "eval"
    /\ loop[l].threshold_evaluations # <<>>
    /\ lock = None
    /\ LET e == Head(loop[l].threshold_evaluations)
           tag_name == e.tag_name
           verdict == Evaluate(TagConfigs[tag_name], e.value)
           violation == verdict[1]
           is_new_violation == violation /\ IsNewViolation(tag_name)
           should_emit == ~violation /\ HasTrackedViolation(tag_name)
           call_hook == CallsRemediationHook(violation, is_new_violation)
           hook_tag == HookTagArgument(tag_name)
           cooldown == IsTagInRemediationCooldown(hook_tag)
           proceed == call_hook /\ ~cooldown[1] /\ HasTemplate("reset")
       IN
       /\ violations' =
            IF is_new_violation
            THEN Append(violations, NewViolation(tag_name, e.value, e.timestamp))
            ELSE IF should_emit
                 THEN [ violations EXCEPT
                          ![active_violations[tag_name]].resolved = TRUE,
                          ![active_violations[tag_name]].resolved_at = <<e.timestamp>> ]
                 ELSE violations
       /\ active_violations' =
            IF is_new_violation
            THEN DictPut(active_violations, tag_name, Len(violations) + 1)
            ELSE active_violations
       /\ total_violations' =
            IF is_new_violation THEN total_violations + 1 ELSE total_violations
       /\ events' =
            IF violation
            THEN EmitEvent(events, ViolationEvent(tag_name, e.value, verdict[2]))
            ELSE IF should_emit
                 THEN EmitEvent(events, ResolutionEvent(tag_name))
                 ELSE events
       /\ ev' = [ ev EXCEPT ![tag_name] =
                   [ tag_name |-> tag_name, value |-> e.value,
                     violation |-> violation, violation_reason |-> verdict[2],
                     is_new_violation |-> is_new_violation,
                     should_emit |-> should_emit,
                     hook_called |-> call_hook,
                     streak |-> IF ~violation THEN 0
                                ELSE IF ev[tag_name].streak < StreakCap
                                     THEN ev[tag_name].streak + 1
                                     ELSE StreakCap ] ]
       /\ hook' =
            IF call_hook
            THEN [ calls |-> hook.calls + 1, action |-> "reset", tag_name |-> hook_tag,
                   for_tag |-> tag_name, is_in_cooldown |-> cooldown[1],
                   job |-> 0 ]
            ELSE hook
       /\ loop' = [ loop EXCEPT ![l].pc = IF proceed THEN "hook_launch" ELSE "eval",
                                ![l].threshold_evaluations = Tail(@) ]
       /\ trace' =
            IF tag_name = "motor_speed" /\ trace.live
               /\ Len(trace.counts) < Len(ScenarioA)
            THEN IF e.value = ScenarioA[Len(trace.counts) + 1]
                 THEN [ trace EXCEPT
                          !.counts = Append(@, ActiveViolationCount') ]
                 ELSE [ trace EXCEPT !.live = FALSE ]
            ELSE trace
    /\ UNCHANGED << extVars, eventlet_available, thread, now, config, plc_connected, running, total_reads, current_values,
                    last_connection_state, remediation_jobs, last_remediation_time,
                    last_remediation_time_global, req >>

\* The failure of the launch raised into _poll_cycle.
HookFailureCaught_Not == FALSE

\* `except Exception` around launch_job in the hook (run.py:187-229, with the
\* early return of run.py:190-192 for a rejected launch) and around the hook
\* call in _evaluate_threshold (monitor.py:342-348).
HookFailureCaught == TRUE

\* remediation_hook from the return of launch_job on (run.py:188-232): the job
\* was launched, or the launch was rejected or raised.
HookLaunch(l) ==
    /\ loop[l].pc = "hook_launch"
    /\ \/ /\ Len(remediation_jobs) < MaxJobs
          /\ remediation_jobs' =
               Append(remediation_jobs, RemediationJob(hook.action, hook.tag_name))
          /\ RecordTrigger(hook.tag_name)
          /\ hook' = [ hook EXCEPT !.job = Len(remediation_jobs) + 1 ]
          /\ loop' = [ loop EXCEPT ![l].pc = "eval" ]
       \/ /\ UNCHANGED << remediation_jobs, last_remediation_time,
                          last_remediation_time_global, hook >>
          /\ loop' = [ loop EXCEPT ![l] =
                        IF HookFailureCaught
                        THEN [ loop[l] EXCEPT !.pc = "eval" ]
                        ELSE [ loop[l] EXCEPT !.pc = "sleep", !.error = TRUE,
                                              !.threshold_evaluations = <<>>,
                                              !.events_to_emit = <<>> ] ]
    /\ UNCHANGED << extVars, eventlet_available, thread, now, config, plc_connected, running, active_violations,
                    violations, total_violations, total_reads, current_values,
                    last_connection_state, events, ev, req, trace >>

\* `current_connected != self._last_connection_state` (monitor.py:238-239).
ConnectionChanged_Always == TRUE

ConnectionChanged == plc_connected # last_connection_state

\* The end of _poll_cycle (monitor.py:237-257): the connectivity check, then the
\* queued events are emitted.
PollFinish(l) ==
    /\ loop[l].pc = "eval"
    /\ loop[l].threshold_evaluations = <<>>
    /\ lock = None
    /\ LET changed == ConnectionChanged
           queue == loop[l].events_to_emit \o
                    ( IF changed THEN << ConnectionEvent(plc_connected) >> ELSE <<>> )
       IN /\ last_connection_state' = plc_connected
          /\ events' = DequeExtend(events, queue, EventsMaxLen)
    /\ loop' = [ loop EXCEPT ![l].pc = "sleep", ![l].events_to_emit = <<>> ]
    /\ UNCHANGED << extVars, eventlet_available, thread, now, config, plc_connected, running, active_violations,
                    violations, total_violations, total_reads, current_values,
                    ev, hook, remediation_jobs, last_remediation_time,
                    last_remediation_time_global, req, trace >>

\* The sleep of _monitor_loop ends (monitor.py:148-153).
LoopSleep(l) ==
    /\ loop[l].pc = "sleep"
    /\ loop' = [ loop EXCEPT ![l].pc = "read", ![l].error = FALSE ]
    /\ UNCHANGED << extVars, eventlet_available, thread, now, config, plc_connected, running, active_violations,
                    violations, total_violations, total_reads, current_values,
                    last_connection_state, events, ev, hook, remediation_jobs,
                    last_remediation_time, last_remediation_time_global, req, trace >>

\* -------------------------------------------------------------- environment
Tick(max_time) ==
    /\ now < max_time
    /\ now' = now + 1
    /\ UNCHANGED << extVars, eventlet_available, thread, config, plc_connected, running, active_violations, violations,
                    total_violations, total_reads, current_values,
                    last_connection_state, events, loop, ev, hook, remediation_jobs,
                    last_remediation_time, last_remediation_time_global, req, trace >>

\* The device connects or disconnects.
PlcConnectionChange ==
    /\ plc_connected' = ~plc_connected
    /\ UNCHANGED << extVars, eventlet_available, thread, now, config, running, active_violations, violations,
                    total_violations, total_reads, current_values,
                    last_connection_state, events, loop, ev, hook, remediation_jobs,
                    last_remediation_time, last_remediation_time_global, req, trace >>

\* ------------------------------------------------------- manual remediation
\* _trigger_remediation up to the call of launch_job (routes.py:306-343).
TriggerRemediation(w, action, tag_name) ==
    /\ req[w].pc = "idle"
    /\ LET cooldown == IsTagInRemediationCooldown(tag_name)
           call == [ pc |-> "idle", action |-> action, tag_name |-> tag_name,
                     status_code |-> 0, remaining |-> 0 ]
       IN req' = [ req EXCEPT ![w] =
                     IF cooldown[1]
                     THEN [ call EXCEPT !.pc = "respond", !.status_code = 429,
                                        !.remaining = cooldown[2] ]
                     ELSE IF ~HasTemplate(action)
                          THEN [ call EXCEPT !.pc = "respond", !.status_code = 404 ]
                          ELSE [ call EXCEPT !.pc = "launch" ] ]
    /\ UNCHANGED << extVars, eventlet_available, thread, now, config, plc_connected, running, active_violations,
                    violations, total_violations, total_reads, current_values,
                    last_connection_state, events, loop, ev, hook, remediation_jobs,
                    last_remediation_time, last_remediation_time_global, trace >>

\* The job recorded whatever launch_job answered.
RecordsJob_Always(success) == TRUE

\* `if not job_result.get('success'): return ...` and the `except` of
\* routes.py:343-347, 389-391: the job record and the cooldown update are
\* reached only by a launch that succeeded.
RecordsJob(success) == success

\* _trigger_remediation from the return of launch_job on (routes.py:343-391):
\* the launch succeeded, or it was rejected or raised.
TriggerLaunch(w) ==
    /\ req[w].pc = "launch"
    /\ \E success \in BOOLEAN :
         /\ IF RecordsJob(success)
            THEN /\ Len(remediation_jobs) < MaxJobs
                 /\ remediation_jobs' =
                      Append(remediation_jobs,
                             RemediationJob(req[w].action, req[w].tag_name))
                 /\ RecordTrigger(req[w].tag_name)
            ELSE UNCHANGED << remediation_jobs, last_remediation_time,
                              last_remediation_time_global >>
         /\ req' = [ req EXCEPT ![w].pc = "respond",
                                ![w].status_code = IF success THEN 200 ELSE 500 ]
    /\ UNCHANGED << extVars, eventlet_available, thread, now, config, plc_connected, running, active_violations,
                    violations, total_violations, total_reads, current_values,
                    last_connection_state, events, loop, ev, hook, trace >>

\* The response of _trigger_remediation leaves the worker, which is free again.
Respond(w) ==
    /\ req[w].pc = "respond"
    /\ req' = [ req EXCEPT ![w] = IdleRequest ]
    /\ UNCHANGED << extVars, eventlet_available, thread, now, config, plc_connected, running, active_violations,
                    violations, total_violations, total_reads, current_values,
                    last_connection_state, events, loop, ev, hook, remediation_jobs,
                    last_remediation_time, last_remediation_time_global, trace >>

\* The cleanup of old cooldown entries in get_remediation_status
\* (routes.py:447-456).
PruneCooldown ==
    /\ last_remediation_time' =
         DictDrop(last_remediation_time,
                  { tag \in DOMAIN last_remediation_time :
                      now - last_remediation_time[tag] > CooldownRetention })
    /\ UNCHANGED << extVars, eventlet_available, thread, now, config, plc_connected, running, active_violations,
                    violations, total_violations, total_reads, current_values,
                    last_connection_state, events, loop, ev, hook, remediation_jobs,
                    last_remediation_time_global, req, trace >>

\* ---------------------------------------------------------- status endpoint
\* What get_job_status may answer: the job still runs, it finished with or
\* without failure, or the request raises.
AapAnswers == {"running", "successful", "failed", "error"}

FinishedStatuses == {"successful", "failed"}

\* The job ids a status request may name; 0 is the request without job_id, for
\* the list of all jobs.
StatusJobIds == 0..MaxJobs

\* The first n entries of a list (`len(jobs_to_check) >= MAX_JOBS_TO_CHECK`).
FirstN(q, n) == IF Len(q) <= n THEN q ELSE SubSeq(q, 1, n)

\* The jobs of the table that are not finished, in dict order
\* (routes.py:475-486).
ActiveJobs ==
    SelectSeq([ j \in 1..Len(remediation_jobs) |-> j ],
              LAMBDA j : remediation_jobs[j].status \notin FinishedStatuses)

\* `elapsed < JOB_STATUS_CHECK_INTERVAL_SECONDS` for a job checked before
\* (routes.py:416-419, 497-501), against the check times `checks`.
IsRateLimited(checks, j) ==
    /\ j \in DOMAIN checks
    /\ now - checks[j] < JOB_STATUS_CHECK_INTERVAL_SECONDS

\* The active job that was never checked, else the one checked longest ago
\* (routes.py:508-522).
OldestJob(checks, active) ==
    LET unchecked == SelectSeq(active, LAMBDA j : j \notin DOMAIN checks)
    IN IF unchecked # <<>>
       THEN Head(unchecked)
       ELSE Head(SelectSeq(active,
                           LAMBDA j : \A k \in 1..Len(active) :
                                        checks[j] <= checks[active[k]]))

\* jobs_to_check of the request for all jobs (routes.py:488-527).
JobsToCheck(checks) ==
    LET active == ActiveJobs
        selected == FirstN(SelectSeq(active, LAMBDA j : ~IsRateLimited(checks, j)),
                           MAX_JOBS_TO_CHECK)
    IN IF selected = <<>> /\ active # <<>>
       THEN << OldestJob(checks, active) >>
       ELSE selected

\* `_monitor.clear_violation(tag_name)` (routes.py:433-439, 544-550): the
\* violation table and the violation objects after the call.  MonitorService
\* has no method clear_violation (monitor.py:26-505), so the call raises
\* AttributeError, which the `except Exception` around it logs.
ClearViolation(tag_name) == << active_violations, violations >>

\* get_remediation_status up to its first get_job_status (routes.py:394-420,
\* 444-531): for one job, or for all jobs after the cleanup of the old cooldown
\* and check entries.
GetRemediationStatus(w, job_id) ==
    /\ status_call[w].pc = "idle"
    /\ IF job_id # 0
       THEN /\ status_call' = [ status_call EXCEPT ![w] =
                 IF job_id \notin DOMAIN remediation_jobs
                 THEN [ IdleStatusCall EXCEPT !.pc = "done", !.status_code = 404 ]
                 ELSE IF \/ remediation_jobs[job_id].status \in FinishedStatuses
                         \/ IsRateLimited(last_job_status_check, job_id)
                      THEN [ IdleStatusCall EXCEPT !.pc = "done", !.status_code = 200 ]
                      ELSE [ IdleStatusCall EXCEPT !.pc = "poll", !.at = now,
                                                   !.jobs_to_check = << job_id >> ] ]
            /\ UNCHANGED << last_remediation_time, last_job_status_check >>
       ELSE LET checks == DictDrop(last_job_status_check,
                                   { j \in DOMAIN last_job_status_check :
                                       now - last_job_status_check[j] > CooldownRetention })
                jobs_to_check == JobsToCheck(checks)
            IN /\ last_remediation_time' =
                    DictDrop(last_remediation_time,
                             { tag \in DOMAIN last_remediation_time :
                                 now - last_remediation_time[tag] > CooldownRetention })
               /\ last_job_status_check' = checks
               /\ status_call' = [ status_call EXCEPT ![w] =
                    IF jobs_to_check = <<>>
                    THEN [ IdleStatusCall EXCEPT !.pc = "done", !.status_code = 200 ]
                    ELSE [ IdleStatusCall EXCEPT !.pc = "poll", !.at = now,
                                                 !.jobs_to_check = jobs_to_check ] ]
    /\ UNCHANGED << lock, probe, load, query, chaosVars, eventlet_available, thread,
                    now, config, plc_connected, running, active_violations,
                    violations, total_violations, total_reads, current_values,
                    last_connection_state, events, loop, ev, hook,
                    remediation_jobs, last_remediation_time_global, req, trace >>

\* get_remediation_status: the check time of the next job is set and
\* get_job_status is called (routes.py:421-423, 530-535).
StatusPollSend(w) ==
    /\ status_call[w].pc = "poll"
    /\ LET job == Head(status_call[w].jobs_to_check) IN
       /\ last_job_status_check' =
            DictPut(last_job_status_check, job, status_call[w].at)
       /\ status_call' = [ status_call EXCEPT
                             ![w].pc = "wait",
                             ![w].old_status = remediation_jobs[job].status ]
    /\ UNCHANGED << lock, probe, load, query, chaosVars, eventlet_available, thread,
                    now, config, plc_connected, running, active_violations,
                    violations, total_violations, total_reads, current_values,
                    last_connection_state, events, loop, ev, hook,
                    remediation_jobs, last_remediation_time,
                    last_remediation_time_global, req, trace >>

\* get_remediation_status from the return of get_job_status on
\* (routes.py:423-441, 535-552): a finished job gets its status and end time,
\* and a job with a tag that just became successful has its violation cleared.
StatusPollReturn(w) ==
    /\ status_call[w].pc = "wait"
    /\ LET job == Head(status_call[w].jobs_to_check)
           rest == Tail(status_call[w].jobs_to_check)
       IN \E answer \in AapAnswers :
            LET clears == /\ answer = "successful"
                          /\ status_call[w].old_status # "successful"
                          /\ remediation_jobs[job].tag_name # None
                cleared == IF clears
                           THEN ClearViolation(remediation_jobs[job].tag_name)
                           ELSE << active_violations, violations >>
            IN /\ remediation_jobs' =
                    IF answer \in FinishedStatuses
                    THEN [ remediation_jobs EXCEPT ![job].status = answer,
                                                   ![job].end_time = << now >> ]
                    ELSE remediation_jobs
               /\ active_violations' = cleared[1]
               /\ violations' = cleared[2]
               /\ status_call' = [ status_call EXCEPT
                                     ![w].pc = IF rest = <<>> THEN "done" ELSE "poll",
                                     ![w].jobs_to_check = rest,
                                     ![w].status_code = 200 ]
    /\ UNCHANGED << lock, probe, load, query, chaosVars, eventlet_available, thread,
                    now, config, plc_connected, running, total_violations,
                    total_reads, current_values, last_connection_state, events,
                    loop, ev, hook, last_job_status_check, last_remediation_time,
                    last_remediation_time_global, req, trace >>

\* The response of get_remediation_status leaves the worker.
StatusRespond(w) ==
    /\ status_call[w].pc = "done"
    /\ status_call' = [ status_call EXCEPT ![w] = IdleStatusCall ]
    /\ UNCHANGED << lock, probe, load, query, chaosVars, eventlet_available, thread,
                    now, config, plc_connected, running, active_violations,
                    violations, total_violations, total_reads, current_values,
                    last_connection_state, events, loop, ev, hook,
                    remediation_jobs, last_job_status_check,
                    last_remediation_time, last_remediation_time_global, req,
                    trace >>

\* The remediation API alone: manual triggers of one worker and the status
\* endpoint called by every worker, the monitor not started.
InitStatus ==
    /\ InitState
    /\ eventlet_available = TRUE
    /\ probe = NoProbe
    /\ load = NoLoad
    /\ NoChaos
    /\ config \in [ tags : { {"motor_speed"} }, auto_remediate : {FALSE},
                    cooldown_seconds : {2} ]

NextStatus ==
    \/ TriggerRemediation("w1", "reset", "motor_speed")
    \/ TriggerLaunch("w1")
    \/ Respond("w1")
    \/ \E w \in Workers, job_id \in StatusJobIds : GetRemediationStatus(w, job_id)
    \/ \E w \in Workers : StatusPollSend(w)
    \/ \E w \in Workers : StatusPollReturn(w)
    \/ \E w \in Workers : StatusRespond(w)
    \/ Tick(MonitorMaxTime)

SpecStatus == InitStatus /\ [][NextStatus]_vars

\* The monitor with motor_speed, manual triggers for that tag and the status
\* endpoint, each called by one worker.
InitClear ==
    /\ InitState
    /\ eventlet_available = TRUE
    /\ probe = NoProbe
    /\ load = NoLoad
    /\ NoChaos
    /\ config \in [ tags : { {"motor_speed"} }, auto_remediate : {FALSE},
                    cooldown_seconds : {2} ]

NextClear ==
    \/ Start
    \/ \E l \in LoopIds : PollRead(l, GateCycles)
    \/ \E l \in LoopIds : EvaluateThreshold(l)
    \/ \E l \in LoopIds : PollFinish(l)
    \/ \E l \in LoopIds : LoopSleep(l)
    \/ TriggerRemediation("w1", "reset", "motor_speed")
    \/ TriggerLaunch("w1")
    \/ Respond("w1")
    \/ \E job_id \in StatusJobIds : GetRemediationStatus("w2", job_id)
    \/ StatusPollSend("w2")
    \/ StatusPollReturn("w2")
    \/ StatusRespond("w2")

SpecClear == InitClear /\ [][NextClear]_vars

\* ------------------------------------------------------------ specifications
\* The monitor alone: auto-remediation is off (the default of config.py:47),
\* no remediation request arrives, the device's connectivity as it is at start.
InitMonitor ==
    /\ InitState
    /\ eventlet_available = TRUE
    /\ probe = NoProbe
    /\ load = NoLoad
    /\ NoChaos
    /\ config \in [ tags : TagSets, auto_remediate : {FALSE},
                    cooldown_seconds : {2} ]

NextMonitor ==
    \/ Start
    \/ \E l \in LoopIds : PollRead(l, MaxCycles)
    \/ \E l \in LoopIds : EvaluateThreshold(l)
    \/ \E l \in LoopIds : PollFinish(l)
    \/ \E l \in LoopIds : LoopSleep(l)
    \/ Tick(MonitorMaxTime)

SpecMonitor == InitMonitor /\ [][NextMonitor]_vars

\* The monitor alone with motor_speed as its only tag, for the five reads of
\* Scenario A.
InitScenario ==
    /\ InitState
    /\ eventlet_available = TRUE
    /\ probe = NoProbe
    /\ load = NoLoad
    /\ NoChaos
    /\ config \in [ tags : { {"motor_speed"} }, auto_remediate : {FALSE},
                    cooldown_seconds : {2} ]

NextScenario ==
    \/ Start
    \/ \E l \in LoopIds : PollRead(l, ScenarioCycles)
    \/ \E l \in LoopIds : EvaluateThreshold(l)
    \/ \E l \in LoopIds : PollFinish(l)
    \/ \E l \in LoopIds : LoopSleep(l)
    \/ Tick(MonitorMaxTime)

SpecScenario == InitScenario /\ [][NextScenario]_vars

\* The remediation API alone: concurrent manual triggers and the status
\* endpoint's cleanup, the monitor not started.
InitGate ==
    /\ InitState
    /\ eventlet_available = TRUE
    /\ probe = NoProbe
    /\ load = NoLoad
    /\ NoChaos
    /\ config \in [ tags : { {"motor_speed"} }, auto_remediate : {FALSE},
                    cooldown_seconds : CooldownChoices ]

NextGate ==
    \/ \E w \in Workers, action \in Actions, tag_name \in RequestTags :
         TriggerRemediation(w, action, tag_name)
    \/ \E w \in Workers : TriggerLaunch(w)
    \/ \E w \in Workers : Respond(w)
    \/ PruneCooldown
    \/ Tick(MaxTime)

SpecGate == InitGate /\ [][NextGate]_vars

\* The monitor with auto-remediation beside one API worker: one tag configured.
InitRemediation ==
    /\ InitState
    /\ eventlet_available = TRUE
    /\ probe = NoProbe
    /\ load = NoLoad
    /\ NoChaos
    /\ config \in [ tags : { {"motor_speed"} }, auto_remediate : {TRUE},
                    cooldown_seconds : CooldownChoices ]

NextRemediation ==
    \/ Start
    \/ \E l \in LoopIds : PollRead(l, GateCycles)
    \/ \E l \in LoopIds : EvaluateThreshold(l)
    \/ \E l \in LoopIds : HookLaunch(l)
    \/ \E l \in LoopIds : PollFinish(l)
    \/ \E l \in LoopIds : LoopSleep(l)
    \/ \E action \in Actions, tag_name \in RequestTags :
         TriggerRemediation("w1", action, tag_name)
    \/ TriggerLaunch("w1")
    \/ Respond("w1")
    \/ PruneCooldown
    \/ Tick(MaxTime)

SpecRemediation == InitRemediation /\ [][NextRemediation]_vars

\* The two trigger paths side by side, without the status endpoint's cleanup:
\* the monitor's hook and the manual triggers of one API worker.
InitTrigger ==
    /\ InitState
    /\ eventlet_available = TRUE
    /\ probe = NoProbe
    /\ load = NoLoad
    /\ NoChaos
    /\ config \in [ tags : { {"motor_speed"} }, auto_remediate : {TRUE},
                    cooldown_seconds : {2} ]

NextTrigger ==
    \/ Start
    \/ \E l \in LoopIds : PollRead(l, GateCycles)
    \/ \E l \in LoopIds : EvaluateThreshold(l)
    \/ \E l \in LoopIds : HookLaunch(l)
    \/ \E l \in LoopIds : PollFinish(l)
    \/ \E l \in LoopIds : LoopSleep(l)
    \/ \E action \in Actions, tag_name \in RequestTags :
         TriggerRemediation("w1", action, tag_name)
    \/ TriggerLaunch("w1")
    \/ Respond("w1")
    \/ Tick(MonitorMaxTime)

SpecTrigger == InitTrigger /\ [][NextTrigger]_vars

\* ------------------------------------------------------------- chaos engine
\* The variables the chaos engine leaves alone, the clock apart.
nonChaosVars == << config, plc_connected, running, active_violations, violations,
                   total_violations, total_reads, current_values,
                   last_connection_state, events, eventlet_available, thread, lock,
                   loop, ev, hook, remediation_jobs, last_remediation_time,
                   last_remediation_time_global, req, trace, probe, load, query,
                   statusVars >>

\* The grace period check left out.
IsInGracePeriod_Never == FALSE

\* ChaosEngine._is_in_grace_period (chaos.py:70-77).
IsInGracePeriod == now - chaos_start_time < STARTUP_GRACE_PERIOD_SECONDS

\* ChaosEngine._is_tag_in_cooldown (chaos.py:89-103).
IsTagInCooldown(tag_name) ==
    /\ tag_name \in DOMAIN last_injection_time
    /\ now - last_injection_time[tag_name] < TAG_INJECTION_COOLDOWN_SECONDS

\* The first expiry test with every anomaly taken as expired.
IsUnexpired_Never(anomaly) == FALSE

\* `datetime.now() < anomaly['end_time']` of the first check (chaos.py:154).
IsUnexpired(anomaly) == now < anomaly.end_time

\* The second expiry test with every anomaly taken as expired.
RacerActive_Never(anomaly) == FALSE

\* `datetime.now() < anomaly['end_time']` of the second check (chaos.py:214).
RacerActive(anomaly) == now < anomaly.end_time

\* The anomaly value of chaos.py:181-202, by tag type.
InjectedValue(tag_config, value) ==
    CASE tag_config.type = "bool" -> IF value = 0 THEN 1 ELSE 0
      [] tag_config.type \in {"int", "float"} ->
           IF IsSet(tag_config.failure_threshold_low)
           THEN tag_config.failure_threshold_low[1] - 100
           ELSE IF IsSet(tag_config.failure_threshold_high)
                THEN tag_config.failure_threshold_high[1] + 100
                ELSE value * 2
      [] OTHER -> value

\* The call of caller c returns result.
Returned(c, result) ==
    [ chaos_call EXCEPT ![c].pc = "done", ![c].result = result ]

\* ChaosEngine.enable (chaos.py:105-109).
Enable ==
    /\ chaos_enabled' = TRUE
    /\ loss_call' = [ loss_call EXCEPT !.fresh = FALSE ]
    /\ UNCHANGED << now, nonChaosVars, chaos_config, chaos_start_time,
                    active_value_anomalies, injection_history, last_injection_time,
                    chaos_call, connection_lost, connection_loss_end_time,
                    restore_timers >>

\* ChaosEngine.disable (chaos.py:111-120).
Disable ==
    /\ chaos_enabled' = FALSE
    /\ active_value_anomalies' = EmptyDict
    /\ last_injection_time' = EmptyDict
    /\ connection_lost' = FALSE
    /\ loss_call' = [ loss_call EXCEPT !.fresh = FALSE, !.applied = FALSE ]
    /\ UNCHANGED << now, nonChaosVars, chaos_config, chaos_start_time,
                    injection_history, chaos_call, connection_loss_end_time,
                    restore_timers >>

\* _inject_value_anomaly: the enabled check and the grace period check
\* (chaos.py:143-148).
HookEnter(c, tag_name, value) ==
    /\ chaos_call[c].pc = "idle"
    /\ LET entered == [ IdleCall EXCEPT !.tag_name = tag_name, !.value = value ]
       IN chaos_call' =
            [ chaos_call EXCEPT ![c] =
                IF ~chaos_enabled \/ IsInGracePeriod
                THEN [ entered EXCEPT !.pc = "done", !.result = value ]
                ELSE [ entered EXCEPT !.pc = "check" ] ]
    /\ UNCHANGED << now, nonChaosVars, lossVars, chaos_config, chaos_enabled, chaos_start_time,
                    active_value_anomalies, injection_history, last_injection_time >>

\* _inject_value_anomaly: the check for an active anomaly, under the engine's
\* lock (chaos.py:150-161).
HookCheck(c) ==
    /\ chaos_call[c].pc = "check"
    /\ LET tag_name == chaos_call[c].tag_name IN
       IF tag_name \in DOMAIN active_value_anomalies
       THEN IF IsUnexpired(active_value_anomalies[tag_name])
            THEN /\ chaos_call' =
                      Returned(c, active_value_anomalies[tag_name].injected_value)
                 /\ UNCHANGED active_value_anomalies
            ELSE /\ active_value_anomalies' =
                      DictDrop(active_value_anomalies, {tag_name})
                 /\ chaos_call' = [ chaos_call EXCEPT ![c].pc = "decide",
                                                      ![c].evicted = TRUE ]
       ELSE /\ chaos_call' = [ chaos_call EXCEPT ![c].pc = "decide" ]
            /\ UNCHANGED active_value_anomalies
    /\ UNCHANGED << now, nonChaosVars, lossVars, chaos_config, chaos_enabled, chaos_start_time,
                    injection_history, last_injection_time >>

\* _inject_value_anomaly: the cooldown check, the random draw and the choice of
\* the anomaly, outside the lock (chaos.py:163-206).
HookDecide(c) ==
    /\ chaos_call[c].pc = "decide"
    /\ LET tag_name == chaos_call[c].tag_name
           value == chaos_call[c].value
       IN \E draw \in RandomDraws, duration \in AnomalyDurations :
            chaos_call' =
              IF \/ IsTagInCooldown(tag_name)
                 \/ draw > chaos_config.failure_injection_rate
                 \/ "value_anomaly" \notin chaos_config.failure_types
                 \/ tag_name \notin config.tags
              THEN Returned(c, value)
              ELSE [ chaos_call EXCEPT
                       ![c].pc = "commit",
                       ![c].injected_value = InjectedValue(TagConfigs[tag_name], value),
                       ![c].end_time = now + duration ]
    /\ UNCHANGED << now, nonChaosVars, lossVars, chaos_config, chaos_enabled, chaos_start_time,
                    active_value_anomalies, injection_history, last_injection_time >>

\* _inject_value_anomaly: the second check and the commit, under the engine's
\* lock (chaos.py:210-243).
HookCommit(c) ==
    /\ chaos_call[c].pc = "commit"
    /\ LET tag_name == chaos_call[c].tag_name
           mine == chaos_call[c]
       IN IF /\ tag_name \in DOMAIN active_value_anomalies
             /\ RacerActive(active_value_anomalies[tag_name])
          THEN /\ chaos_call' =
                    Returned(c, active_value_anomalies[tag_name].injected_value)
               /\ UNCHANGED << active_value_anomalies, injection_history,
                               last_injection_time >>
          ELSE /\ Len(injection_history) < MaxInjections
               /\ injection_history' =
                    Append(injection_history,
                           [ tag_name |-> tag_name, original_value |-> mine.value,
                             injected_value |-> mine.injected_value ])
               /\ active_value_anomalies' =
                    DictPut(active_value_anomalies, tag_name,
                            [ injected_value |-> mine.injected_value,
                              original_value |-> mine.value,
                              end_time |-> mine.end_time ])
               /\ last_injection_time' = DictPut(last_injection_time, tag_name, now)
               /\ chaos_call' =
                    [ d \in Callers |->
                        IF d = c
                        THEN [ mine EXCEPT !.pc = "done",
                                           !.result = mine.injected_value ]
                        ELSE IF chaos_call[d].pc = "commit"
                                /\ chaos_call[d].tag_name = tag_name
                             THEN [ chaos_call[d] EXCEPT
                                      !.raced = << mine.injected_value >> ]
                             ELSE chaos_call[d] ]
    /\ UNCHANGED << now, nonChaosVars, lossVars, chaos_config, chaos_enabled, chaos_start_time >>

\* The hook's return value has been taken by the caller.
HookReturn(c) ==
    /\ chaos_call[c].pc = "done"
    /\ chaos_call' = [ chaos_call EXCEPT ![c] = IdleCall ]
    /\ UNCHANGED << now, nonChaosVars, lossVars, chaos_config, chaos_enabled, chaos_start_time,
                    active_value_anomalies, injection_history, last_injection_time >>

\* The chaos engine alone: concurrent calls of its injection hook for the bool
\* tag of tests/test_chaos.py:27-33, enable() and disable(); the engine is
\* constructed enabled at time 0.
InitChaos ==
    /\ InitState
    /\ plc_connected = FALSE
    /\ eventlet_available = TRUE
    /\ probe = NoProbe
    /\ load = NoLoad
    /\ config = [ tags |-> {"light"}, auto_remediate |-> FALSE,
                  cooldown_seconds |-> 2 ]
    /\ chaos_config \in [ failure_injection_rate : InjectionRates,
                          failure_types : { {"value_anomaly", "network_timeout"} } ]
    /\ chaos_enabled = TRUE
    /\ chaos_start_time = 0
    /\ active_value_anomalies = EmptyDict
    /\ injection_history = <<>>
    /\ last_injection_time = EmptyDict
    /\ chaos_call = [ c \in Callers |-> IdleCall ]
    /\ NoLoss

NextChaos ==
    \/ \E c \in Callers, tag_name \in config.tags :
         \E value \in HookValues(tag_name) : HookEnter(c, tag_name, value)
    \/ \E c \in Callers : HookCheck(c)
    \/ \E c \in Callers : HookDecide(c)
    \/ \E c \in Callers : HookCommit(c)
    \/ \E c \in Callers : HookReturn(c)
    \/ Enable
    \/ Disable
    \/ Tick(ChaosMaxTime)

SpecChaos == InitChaos /\ [][NextChaos]_vars

\* ---------------------------------------------------------- connection loss
\* The variables of the engine the connection loss leaves alone.
hookVars == << chaos_config, chaos_start_time, active_value_anomalies,
               injection_history, last_injection_time, chaos_call >>

\* What is_connection_lost() returns in the current state (chaos.py:333-341).
ConnectionLostNow ==
    /\ connection_lost
    /\ connection_loss_end_time # <<>>
    /\ now < connection_loss_end_time[1]

\* ChaosEngine.inject_connection_loss (chaos.py:282-325): nothing is done in
\* the grace period or where connection_loss is not among the configured
\* failure types; otherwise the loss is recorded with its end time and a
\* restore_connection thread is started, which sleeps for the duration.
InjectConnectionLoss(duration) ==
    LET skipped == IsInGracePeriod
                   \/ "connection_loss" \notin chaos_config.failure_types
    IN /\ Len(restore_timers) < MaxTimers
       /\ connection_lost' = IF skipped THEN connection_lost ELSE TRUE
       /\ connection_loss_end_time' =
            IF skipped THEN connection_loss_end_time ELSE << now + duration >>
       /\ restore_timers' =
            IF skipped THEN restore_timers ELSE Append(restore_timers, now + duration)
       /\ loss_call' = [ loss_call EXCEPT
                           !.fresh = TRUE, !.at = now,
                           !.applied = IF skipped THEN @ ELSE TRUE,
                           !.end = IF skipped THEN @ ELSE now + duration ]
       /\ UNCHANGED << now, nonChaosVars, hookVars, chaos_enabled >>

\* restore_connection (chaos.py:316-323): the i-th sleeping thread wakes once
\* its duration has passed and clears the loss.
RestoreConnection(i) ==
    /\ i \in 1..Len(restore_timers)
    /\ now >= restore_timers[i]
    /\ connection_lost' = FALSE
    /\ connection_loss_end_time' = <<>>
    /\ restore_timers' =
         [ k \in 1..(Len(restore_timers) - 1) |->
             IF k < i THEN restore_timers[k] ELSE restore_timers[k + 1] ]
    /\ loss_call' = [ loss_call EXCEPT !.fresh = FALSE ]
    /\ UNCHANGED << now, nonChaosVars, hookVars, chaos_enabled >>

\* ChaosEngine.is_connection_lost (chaos.py:327-341): a loss whose end time
\* has passed is cleared by the query.
IsConnectionLost ==
    /\ IF connection_lost /\ connection_loss_end_time # <<>>
          /\ now >= connection_loss_end_time[1]
       THEN /\ connection_lost' = FALSE
            /\ connection_loss_end_time' = <<>>
       ELSE UNCHANGED << connection_lost, connection_loss_end_time >>
    /\ loss_call' = [ loss_call EXCEPT !.fresh = FALSE, !.queried = TRUE,
                                       !.result = ConnectionLostNow ]
    /\ UNCHANGED << now, nonChaosVars, hookVars, chaos_enabled, restore_timers >>

\* The chaos engine alone: manual connection-loss injections, their reversal
\* timers, the query, enable() and disable(); the engine is constructed enabled
\* at time 0, with the failure types of tests/test_chaos.py:15 or with
\* connection_loss among them.
InitLoss ==
    /\ InitState
    /\ plc_connected = FALSE
    /\ eventlet_available = TRUE
    /\ probe = NoProbe
    /\ load = NoLoad
    /\ config = [ tags |-> {"light"}, auto_remediate |-> FALSE,
                  cooldown_seconds |-> 2 ]
    /\ chaos_config \in
         [ failure_injection_rate : {1},
           failure_types : { {"value_anomaly", "network_timeout"},
                             {"value_anomaly", "network_timeout",
                              "connection_loss"} } ]
    /\ chaos_enabled = TRUE
    /\ chaos_start_time = 0
    /\ active_value_anomalies = EmptyDict
    /\ injection_history = <<>>
    /\ last_injection_time = EmptyDict
    /\ chaos_call = [ c \in Callers |-> IdleCall ]
    /\ NoLoss

NextLoss ==
    \/ \E duration \in LossDurations : InjectConnectionLoss(duration)
    \/ \E i \in 1..MaxTimers : RestoreConnection(i)
    \/ IsConnectionLost
    \/ Enable
    \/ Disable
    \/ Tick(LossMaxTime)

SpecLoss == InitLoss /\ [][NextLoss]_vars

\* ------------------------------------------------------------ status queries
\* The variables a status query leaves alone.
nonQueryVars == << now, config, plc_connected, running, active_violations,
                   violations, total_violations, total_reads, current_values,
                   last_connection_state, events, eventlet_available, thread,
                   loop, ev, hook, remediation_jobs, last_remediation_time,
                   last_remediation_time_global, req, trace, probe, load, statusVars,
                   chaosVars >>

\* get_statistics up to the evaluation of the 'active_violations' entry of its
\* result (monitor.py:485-502): `with self._lock` waits for the lock and keeps
\* it; self._start_time is the time of construction, 0.
GetStatistics(w) ==
    /\ query[w].pc = "idle"
    /\ lock = None
    /\ lock' = w
    /\ query' = [ query EXCEPT ![w] =
                    [ pc |-> "active_violations", method |-> "get_statistics",
                      result |-> [ uptime_seconds |-> now,
                                   total_tag_reads |-> total_reads,
                                   total_violations |-> total_violations ] ] ]
    /\ UNCHANGED nonQueryVars

\* get_active_violations (monitor.py:470-477): `with self._lock` waits for the
\* lock, which threading.Lock (monitor.py:43) gives to no second acquirer, the
\* holder included.  Called by an API worker, or by get_statistics for the
\* 'active_violations' entry (monitor.py:502), which then returns its result and
\* leaves its own `with` block (monitor.py:498-505).
GetActiveViolationsCall(w) ==
    /\ query[w].pc \in {"idle", "active_violations"}
    /\ lock = None
    /\ IF query[w].pc = "active_violations"
       THEN query' = [ query EXCEPT ![w].pc = "done",
                         ![w].result =
                             [ x \in (DOMAIN @) \cup {"active_violations"} |->
                                 IF x = "active_violations"
                                 THEN ActiveViolationCount ELSE @[x] ] ]
       ELSE query' = [ query EXCEPT ![w] =
                         [ pc |-> "done", method |-> "get_active_violations",
                           result |-> [ active_violations |-> ActiveViolationCount ] ] ]
    /\ lock' = None
    /\ UNCHANGED nonQueryVars

\* The result of the query leaves the worker, which is free again.
QueryReturn(w) ==
    /\ query[w].pc = "done"
    /\ query' = [ query EXCEPT ![w] = IdleQuery ]
    /\ UNCHANGED << nonQueryVars, lock >>

\* The monitor with motor_speed as its only tag, and the status queries of the
\* API workers beside it.
InitStats ==
    /\ InitState
    /\ eventlet_available = TRUE
    /\ probe = NoProbe
    /\ load = NoLoad
    /\ NoChaos
    /\ config \in [ tags : { {"motor_speed"} }, auto_remediate : {FALSE},
                    cooldown_seconds : {2} ]

NextStats ==
    \/ Start
    \/ \E l \in LoopIds : PollRead(l, StatsCycles)
    \/ \E l \in LoopIds : EvaluateThreshold(l)
    \/ \E l \in LoopIds : PollFinish(l)
    \/ \E l \in LoopIds : LoopSleep(l)
    \/ \E w \in Workers : GetStatistics(w)
    \/ \E w \in Workers : GetActiveViolationsCall(w)
    \/ \E w \in Workers : QueryReturn(w)

\* Every query that can go on does go on: no worker is starved by the
\* scheduler.
FairStats ==
    \A w \in Workers :
        /\ WF_vars(GetActiveViolationsCall(w))
        /\ WF_vars(QueryReturn(w))

SpecStats == InitStats /\ [][NextStats]_vars /\ FairStats

\* ---------------------------------------------------------------- lifecycle
\* `except Exception` of _monitor_loop (monitor.py:143-146) catches what
\* _poll_cycle raises.
CycleExceptionCaught_Not == FALSE

CycleExceptionCaught == TRUE

\* MonitorService.stop (monitor.py:120-136).  With eventlet the loop greenlet is
\* killed: GreenletExit is raised at the point where it waits, and no `except
\* Exception` catches it.  Without eventlet stop() joins the loop thread for at
\* most 5 s and returns whether or not the thread has ended: a thread at the
\* head of its loop or in its sleep may end within the join; a thread in a
\* sleep or a cycle that outlasts the join is alive when stop() returns, and
\* ends by LoopExit.
Stop ==
    IF ~running
    THEN UNCHANGED vars
    ELSE /\ running' = FALSE
         /\ IF thread = 0 \/ loop[thread].pc = "stopped"
            THEN loop' = loop
            ELSE IF eventlet_available
                 THEN loop' = [ loop EXCEPT ![thread] = IdleLoop ]
                 ELSE \/ /\ loop[thread].pc \in {"read", "sleep"}
                         /\ loop' = [ loop EXCEPT ![thread] = IdleLoop ]
                      \/ /\ loop[thread].pc # "read"
                         /\ loop' = [ loop EXCEPT ![thread].retired = TRUE ]
         /\ UNCHANGED << extVars, eventlet_available, thread, now, config,
                         plc_connected, active_violations, violations,
                         total_violations, total_reads, current_values,
                         last_connection_state, events, ev, hook,
                         remediation_jobs, last_remediation_time,
                         last_remediation_time_global, req, trace >>

\* `while self._running` is false (monitor.py:142): _monitor_loop returns and
\* the task ends.
LoopExit(l) ==
    /\ loop[l].pc = "read"
    /\ ~running
    /\ loop' = [ loop EXCEPT ![l] = IdleLoop ]
    /\ UNCHANGED << extVars, eventlet_available, thread, now, config,
                    plc_connected, running, active_violations, violations,
                    total_violations, total_reads, current_values,
                    last_connection_state, events, ev, hook, remediation_jobs,
                    last_remediation_time, last_remediation_time_global, req,
                    trace >>

\* _poll_cycle raises (monitor.py:144-146): in the batch read of a cycle that
\* `while self._running` has let begin, or after the publication of the results,
\* in an evaluation, the connectivity check or the emission of an event.  The
\* cycle's locals are lost; the loop goes on to its sleep, or the task dies
\* where nothing catches the exception.
PollRaise(l) ==
    /\ \/ loop[l].pc = "read" /\ running
       \/ loop[l].pc = "eval"
    /\ loop' = [ loop EXCEPT ![l] =
                   IF CycleExceptionCaught
                   THEN [ pc |-> "sleep", threshold_evaluations |-> <<>>,
                          events_to_emit |-> <<>>, values_to_store |-> EmptyDict,
                          cycles |-> loop[l].cycles,
                          error |-> TRUE, retired |-> loop[l].retired,
                          chaos_at_read |-> loop[l].chaos_at_read ]
                   ELSE [ IdleLoop EXCEPT !.error = TRUE ] ]
    /\ UNCHANGED << extVars, eventlet_available, thread, now, config,
                    plc_connected, running, active_violations, violations,
                    total_violations, total_reads, current_values,
                    last_connection_state, events, ev, hook, remediation_jobs,
                    last_remediation_time, last_remediation_time_global, req,
                    trace >>

\* A poll cycle of a run that publishes at most LifecycleReads reads in all.
LifecyclePollRead(l) ==
    /\ total_reads < LifecycleReads
    /\ PollRead(l, LifecycleReads)

\* The monitor with light as its only tag, started and stopped any number of
\* times, in the build with eventlet and in the build without.
InitLifecycle ==
    /\ InitState
    /\ eventlet_available \in BOOLEAN
    /\ probe = NoProbe
    /\ load = NoLoad
    /\ NoChaos
    /\ config \in [ tags : { {"light"} }, auto_remediate : {FALSE},
                    cooldown_seconds : {2} ]

NextLifecycle ==
    \/ Start
    \/ Stop
    \/ \E l \in LoopIds : LifecyclePollRead(l)
    \/ \E l \in LoopIds : PollRaise(l)
    \/ \E l \in LoopIds : EvaluateThreshold(l)
    \/ \E l \in LoopIds : PollFinish(l)
    \/ \E l \in LoopIds : LoopSleep(l)
    \/ \E l \in LoopIds : LoopExit(l)

SpecLifecycle == InitLifecycle /\ [][NextLifecycle]_vars

\* ------------------------------------------------------------ monitor lock
\* The holder of the lock when loop task l has taken it.
LoopThread(l) == ToString(l)

\* The lock left held at the end of the `with` block.
ReleasedLock_Kept(l) == LoopThread(l)

\* The end of `with self._lock` (monitor.py:225-231): the lock is free again.
ReleasedLock(l) == None

\* The while check of _monitor_loop and the batch read of _poll_cycle with the
\* preparation of the results (monitor.py:142, 157-222): no lock is taken, the
\* read may take any time.
PollBatchRead(l, max_cycles) ==
    /\ loop[l].pc = "read"
    /\ running
    /\ loop[l].cycles < max_cycles
    /\ \E results \in ReadResults :
         loop' = [ loop EXCEPT ![l] =
                     [ pc |-> "publish",
                       threshold_evaluations |->
                           ThresholdEvaluations(ConfiguredTags, results),
                       events_to_emit |-> EventsToEmit(ConfiguredTags, results),
                       values_to_store |->
                           [ t \in config.tags |->
                               [ value |-> results[t].value,
                                 success |-> results[t].success ] ],
                       cycles |-> loop[l].cycles + 1,
                       error |-> FALSE,
                       retired |-> loop[l].retired,
                       chaos_at_read |-> chaos_enabled ] ]
    /\ UNCHANGED << extVars, eventlet_available, thread, now, config,
                    plc_connected, running, active_violations, violations,
                    total_violations, total_reads, current_values,
                    last_connection_state, events, ev, hook, remediation_jobs,
                    last_remediation_time, last_remediation_time_global, req,
                    trace >>

\* `with self._lock` of monitor.py:225: the loop waits for the lock and takes it.
PollLock(l) ==
    /\ loop[l].pc = "publish"
    /\ lock = None
    /\ lock' = LoopThread(l)
    /\ loop' = [ loop EXCEPT ![l].pc = "locked" ]
    /\ UNCHANGED << probe, load, query, statusVars, chaosVars, eventlet_available, thread, now,
                    config, plc_connected, running, active_violations,
                    violations, total_violations, total_reads, current_values,
                    last_connection_state, events, ev, hook, remediation_jobs,
                    last_remediation_time, last_remediation_time_global, req,
                    trace >>

\* The body of the `with` block (monitor.py:226-231): the prepared results are
\* published, and the lock is released.
PollPublish(l) ==
    /\ loop[l].pc = "locked"
    /\ lock = LoopThread(l)
    /\ current_values' =
         [ t \in (DOMAIN current_values) \cup (DOMAIN loop[l].values_to_store) |->
             IF t \in DOMAIN loop[l].values_to_store
             THEN loop[l].values_to_store[t] ELSE current_values[t] ]
    /\ total_reads' = total_reads + Cardinality(DOMAIN loop[l].values_to_store)
    /\ lock' = ReleasedLock(l)
    /\ loop' = [ loop EXCEPT ![l].pc = "eval", ![l].values_to_store = EmptyDict ]
    /\ UNCHANGED << probe, load, query, statusVars, chaosVars, eventlet_available, thread, now,
                    config, plc_connected, running, active_violations,
                    violations, total_violations, last_connection_state, events,
                    ev, hook, remediation_jobs, last_remediation_time,
                    last_remediation_time_global, req, trace >>

\* The monitor with motor_speed as its only tag, its poll cycle taken step by
\* step around the lock, and the status queries of the API workers beside it.
InitLock ==
    /\ InitState
    /\ eventlet_available = TRUE
    /\ probe = NoProbe
    /\ load = NoLoad
    /\ NoChaos
    /\ config \in [ tags : { {"motor_speed"} }, auto_remediate : {FALSE},
                    cooldown_seconds : {2} ]

NextLock ==
    \/ Start
    \/ \E l \in LoopIds : PollBatchRead(l, StatsCycles)
    \/ \E l \in LoopIds : PollLock(l)
    \/ \E l \in LoopIds : PollPublish(l)
    \/ \E l \in LoopIds : EvaluateThreshold(l)
    \/ \E l \in LoopIds : PollFinish(l)
    \/ \E l \in LoopIds : LoopSleep(l)
    \/ \E w \in Workers : GetActiveViolationsCall(w)
    \/ \E w \in Workers : QueryReturn(w)

SpecLock == InitLock /\ [][NextLock]_vars

\* ------------------------------------------------- monitor with chaos engine
\* The caller of the injection hook that is the monitor loop.
MonitorCaller == "h1"

\* `self._chaos_hook` of the monitor (monitor.py:67, 199): create_app registers
\* the hook only when get_injection_hook() returns one (run.py:143-145), and
\* get_injection_hook returns None while the engine is not enabled
\* (chaos.py:128-129), which at assembly is config.enabled (chaos.py:42).
ChaosHookSet == chaos_config.enabled

\* The tag of the batch that the loop of monitor.py:185 processes next: each
\* tag processed has queued one event.
NextTag(l) == ConfiguredTags[Len(loop[l].events_to_emit) + 1]

\* pc after a tag has been processed: the next tag, or the publication.
AfterTag(l) ==
    IF Len(loop[l].events_to_emit) + 1 = Len(ConfiguredTags)
    THEN "publish" ELSE "hook"

\* The while check of _monitor_loop and the batch read of _poll_cycle
\* (monitor.py:142, 157-183).
PollReadRaw(l, max_cycles) ==
    /\ loop[l].pc = "read"
    /\ running
    /\ loop[l].cycles < max_cycles
    /\ \E results \in ReadResults :
         loop' = [ loop EXCEPT ![l] =
                     [ pc |-> "hook",
                       threshold_evaluations |-> <<>>,
                       events_to_emit |-> <<>>,
                       values_to_store |->
                           [ t \in config.tags |->
                               [ value |-> results[t].value,
                                 success |-> results[t].success ] ],
                       cycles |-> loop[l].cycles + 1,
                       error |-> FALSE,
                       retired |-> loop[l].retired,
                       chaos_at_read |-> chaos_enabled ] ]
    /\ UNCHANGED << extVars, eventlet_available, thread, now, config,
                    plc_connected, running, active_violations, violations,
                    total_violations, total_reads, current_values,
                    last_connection_state, events, ev, hook, remediation_jobs,
                    last_remediation_time, last_remediation_time_global, req,
                    trace >>

\* One tag of the loop of monitor.py:185-222 that needs no hook call: a failed
\* read queues its error event, a successful one with no hook registered is
\* queued for evaluation as it was read.
PollProcessTag(l) ==
    /\ loop[l].pc = "hook"
    /\ LET t == NextTag(l)
           result == loop[l].values_to_store[t]
       IN /\ ~result.success \/ ~ChaosHookSet
          /\ loop' = [ loop EXCEPT
                ![l].pc = AfterTag(l),
                ![l].threshold_evaluations =
                    IF result.success
                    THEN Append(@, [ tag_name |-> t, value |-> result.value,
                                     timestamp |-> now ])
                    ELSE @,
                ![l].events_to_emit =
                    Append(@, IF result.success
                              THEN TagReadEvent(t, result.value)
                              ELSE TagReadErrorEvent(t)) ]
    /\ UNCHANGED << extVars, eventlet_available, thread, now, config,
                    plc_connected, running, active_violations, violations,
                    total_violations, total_reads, current_values,
                    last_connection_state, events, ev, hook, remediation_jobs,
                    last_remediation_time, last_remediation_time_global, req,
                    trace >>

\* `value = self._chaos_hook(tag_name, value)` (monitor.py:199-201): the loop
\* calls the registered hook with the value it read.
PollCallHook(l) ==
    /\ loop[l].pc = "hook"
    /\ loop[l].values_to_store[NextTag(l)].success
    /\ ChaosHookSet
    /\ HookEnter(MonitorCaller, NextTag(l), loop[l].values_to_store[NextTag(l)].value)

\* The hook has returned (monitor.py:201-213): its value is queued for
\* evaluation and in the tag_read event.
PollTakeHookResult(l) ==
    /\ loop[l].pc = "hook"
    /\ chaos_call[MonitorCaller].pc = "done"
    /\ LET t == NextTag(l)
           value == chaos_call[MonitorCaller].result
       IN loop' = [ loop EXCEPT
             ![l].pc = AfterTag(l),
             ![l].threshold_evaluations =
                 Append(@, [ tag_name |-> t, value |-> value, timestamp |-> now ]),
             ![l].events_to_emit = Append(@, TagReadEvent(t, value)) ]
    /\ chaos_call' = [ chaos_call EXCEPT ![MonitorCaller] = IdleCall ]
    /\ UNCHANGED << lock, probe, load, query, statusVars, lossVars, chaos_config,
                    chaos_enabled, chaos_start_time, active_value_anomalies,
                    injection_history, last_injection_time, eventlet_available,
                    thread, now, config, plc_connected, running,
                    active_violations, violations, total_violations, total_reads,
                    current_values, last_connection_state, events, ev, hook,
                    remediation_jobs, last_remediation_time,
                    last_remediation_time_global, req, trace >>

\* The application as create_app assembles it (run.py:134-145): the chaos
\* engine enabled or not in the configuration, the monitor with the bool tag,
\* and the enable and disable routes of the API (routes.py:571-625).
InitInject ==
    /\ InitState
    /\ eventlet_available = TRUE
    /\ probe = NoProbe
    /\ load = NoLoad
    /\ plc_connected = TRUE
    /\ config = [ tags |-> {"light"}, auto_remediate |-> FALSE,
                  cooldown_seconds |-> 2 ]
    /\ chaos_config \in [ enabled : BOOLEAN, failure_injection_rate : {10},
                          failure_types : { {"value_anomaly", "network_timeout"} } ]
    /\ chaos_enabled = chaos_config.enabled
    /\ chaos_start_time = 0
    /\ active_value_anomalies = EmptyDict
    /\ injection_history = <<>>
    /\ last_injection_time = EmptyDict
    /\ chaos_call = [ c \in Callers |-> IdleCall ]
    /\ NoLoss

NextInject ==
    \/ Start
    \/ \E l \in LoopIds : PollReadRaw(l, InjectCycles)
    \/ \E l \in LoopIds : PollProcessTag(l)
    \/ \E l \in LoopIds : PollCallHook(l)
    \/ HookCheck(MonitorCaller)
    \/ HookDecide(MonitorCaller)
    \/ HookCommit(MonitorCaller)
    \/ \E l \in LoopIds : PollTakeHookResult(l)
    \/ \E l \in LoopIds : PollLock(l)
    \/ \E l \in LoopIds : PollPublish(l)
    \/ \E l \in LoopIds : EvaluateThreshold(l)
    \/ \E l \in LoopIds : PollFinish(l)
    \/ \E l \in LoopIds : LoopSleep(l)
    \/ Enable
    \/ Disable
    \/ Tick(MonitorMaxTime)

SpecInject == InitInject /\ [][NextInject]_vars

\* --------------------------------------------------------- auto-remediation
\* The monitor with motor_speed as its only tag and the remediation hook of
\* run.py registered, with auto-remediation on or off.
InitAuto ==
    /\ InitState
    /\ eventlet_available = TRUE
    /\ probe = NoProbe
    /\ load = NoLoad
    /\ NoChaos
    /\ config \in [ tags : { {"motor_speed"} }, auto_remediate : BOOLEAN,
                    cooldown_seconds : {2} ]

NextAuto ==
    \/ Start
    \/ \E l \in LoopIds : PollRead(l, AutoCycles)
    \/ \E l \in LoopIds : EvaluateThreshold(l)
    \/ \E l \in LoopIds : HookLaunch(l)
    \/ \E l \in LoopIds : PollFinish(l)
    \/ \E l \in LoopIds : LoopSleep(l)

SpecAuto == InitAuto /\ [][NextAuto]_vars

\* The monitor with both tags, auto-remediation on and the remediation hook of
\* run.py registered; a launch may succeed, be rejected or raise.
InitHook ==
    /\ InitState
    /\ eventlet_available = TRUE
    /\ probe = NoProbe
    /\ load = NoLoad
    /\ NoChaos
    /\ config \in [ tags : TagSets, auto_remediate : {TRUE},
                    cooldown_seconds : {2} ]

NextHook ==
    \/ Start
    \/ \E l \in LoopIds : PollRead(l, HookCycles)
    \/ \E l \in LoopIds : EvaluateThreshold(l)
    \/ \E l \in LoopIds : HookLaunch(l)
    \/ \E l \in LoopIds : PollFinish(l)
    \/ \E l \in LoopIds : LoopSleep(l)
    \/ Tick(MonitorMaxTime)

SpecHook == InitHook /\ [][NextHook]_vars

\* --------------------------------------------------------------- poll cycle
\* The monitor with both tags, a device whose connectivity changes, and poll
\* cycles that may end in an exception.
InitCycle ==
    /\ InitState
    /\ eventlet_available = TRUE
    /\ probe = NoProbe
    /\ load = NoLoad
    /\ NoChaos
    /\ config \in [ tags : TagSets, auto_remediate : {FALSE},
                    cooldown_seconds : {2} ]

NextCycle ==
    \/ Start
    \/ \E l \in LoopIds : PollRead(l, CycleCycles)
    \/ \E l \in LoopIds : PollRaise(l)
    \/ \E l \in LoopIds : EvaluateThreshold(l)
    \/ \E l \in LoopIds : PollFinish(l)
    \/ \E l \in LoopIds : LoopSleep(l)
    \/ PlcConnectionChange

SpecCycle == InitCycle /\ [][NextCycle]_vars

\* ---------------------------------------------------------------- evaluator
\* The failure conditions of TagConfig (config.py:27).
FailureConditions == { "equals", "not_equals", "outside_range", "below", "above" }

\* The thresholds and the failure value a tag may be configured with: unset, or
\* one of two numbers (so that the low threshold may lie above the high one).
OptionalNumbers == { <<>>, <<10>>, <<20>> }

\* The values the evaluator is given.
ProbeValues == { 5, 10, 15, 20, 25 }

\* The tag configurations the evaluator is given (TagConfig, config.py:22-30).
ProbeConfigs ==
    [ name : {"Tag"}, type : {"int"}, nominal : {15},
      failure_condition : FailureConditions,
      failure_value : OptionalNumbers,
      failure_threshold_low : OptionalNumbers,
      failure_threshold_high : OptionalNumbers ]

\* The verdict part of one _evaluate_threshold call (monitor.py:270-303).
ProbeEvaluate ==
    /\ ~probe.evaluated
    /\ LET verdict == Evaluate(probe.tag_config, probe.value)
       IN probe' = [ probe EXCEPT !.evaluated = TRUE, !.violation = verdict[1],
                                  !.violation_reason = verdict[2] ]
    /\ UNCHANGED << now, config, plc_connected, running, active_violations,
                    violations, total_violations, total_reads, current_values,
                    last_connection_state, events, eventlet_available, thread,
                    lock, load, query, statusVars, loop, ev, hook, remediation_jobs,
                    last_remediation_time, last_remediation_time_global, req,
                    trace, chaosVars >>

\* The evaluator alone, on every tag configuration and value of the bounded sets.
InitEvaluator ==
    /\ InitState
    /\ plc_connected = FALSE
    /\ eventlet_available = TRUE
    /\ config = [ tags |-> {"motor_speed"}, auto_remediate |-> FALSE,
                  cooldown_seconds |-> 2 ]
    /\ NoChaos
    /\ load = NoLoad
    /\ \E tag_config \in ProbeConfigs, value \in ProbeValues :
         probe = [ NoProbe EXCEPT !.tag_config = tag_config, !.value = value ]

NextEvaluator == ProbeEvaluate

SpecEvaluator == InitEvaluator /\ [][NextEvaluator]_vars

\* ------------------------------------------------------------ configuration
\* The fields every tag must have (config.py:290).
RequiredFields == { "name", "type", "nominal", "failure_condition" }

\* The keys a tag's YAML mapping may carry beside name, type and
\* failure_condition.
OptionalKeys == { "nominal", "failure_value", "failure_threshold_low",
                  "failure_threshold_high", "failure_threshold_below",
                  "failure_threshold_above" }

\* The tag data the loader is given: the keys present and the failure condition.
TagDatas ==
    [ keys : { {"name", "type", "failure_condition"} \cup ks : ks \in SUBSET OptionalKeys },
      failure_condition : FailureConditions ]

\* The number a key of the tag data carries when it is present.
TagDataValue(key) ==
    CASE key = "nominal" -> 15
      [] key = "failure_value" -> 10
      [] key \in {"failure_threshold_low", "failure_threshold_below"} -> 10
      [] OTHER -> 20

\* `tag_data.get(key)`: None when the key is absent.
TagDataGet(tag_data, key) ==
    IF key \in tag_data.keys THEN << TagDataValue(key) >> ELSE <<>>

\* `threshold_key = f"failure_threshold_{failure_condition}"` (config.py:309).
ThresholdKey(failure_condition) == "failure_threshold_" \o failure_condition

\* ConfigLoader._validate_tag_config raises ValueError (config.py:290-314).
TagDataRejected(tag_data) ==
    \/ \E field \in RequiredFields : field \notin tag_data.keys
    \/ /\ tag_data.failure_condition \in {"equals", "not_equals"}
       /\ "failure_value" \notin tag_data.keys
    \/ /\ tag_data.failure_condition = "outside_range"
       /\ \/ "failure_threshold_low" \notin tag_data.keys
          \/ "failure_threshold_high" \notin tag_data.keys
    \/ /\ tag_data.failure_condition \in {"below", "above"}
       /\ ThresholdKey(tag_data.failure_condition) \notin tag_data.keys

\* The TagConfig that _validate_tag_config returns (config.py:316-324).
ValidatedTagConfig(tag_data) ==
    [ name |-> "Tag", type |-> "int", nominal |-> TagDataValue("nominal"),
      failure_condition |-> tag_data.failure_condition,
      failure_value |-> TagDataGet(tag_data, "failure_value"),
      failure_threshold_low |-> TagDataGet(tag_data, "failure_threshold_low"),
      failure_threshold_high |-> TagDataGet(tag_data, "failure_threshold_high") ]

\* One call of _validate_tag_config at load time (config.py:277-324): the tag
\* data is rejected with ValueError, which ends create_app (run.py:107-110), or
\* the TagConfig is built and the evaluator is given a value for it.
ValidateTagConfig ==
    /\ load.pc = "raw"
    /\ IF TagDataRejected(load)
       THEN /\ load' = [ load EXCEPT !.pc = "rejected" ]
            /\ UNCHANGED probe
       ELSE /\ load' = [ load EXCEPT !.pc = "loaded",
                                     !.tag_config = ValidatedTagConfig(load) ]
            /\ \E value \in ProbeValues :
                 probe' = [ NoProbe EXCEPT !.tag_config = ValidatedTagConfig(load),
                                           !.value = value ]
    /\ UNCHANGED << now, config, plc_connected, running, active_violations,
                    violations, total_violations, total_reads, current_values,
                    last_connection_state, events, eventlet_available, thread,
                    lock, query, statusVars, loop, ev, hook, remediation_jobs,
                    last_remediation_time, last_remediation_time_global, req,
                    trace, chaosVars >>

\* The evaluator is called with the loaded tag configuration.
LoadedEvaluate ==
    /\ load.pc = "loaded"
    /\ ProbeEvaluate

\* The loader and the evaluator: every tag data of the bounded set is validated
\* and, once accepted, evaluated.
InitConfig ==
    /\ InitState
    /\ plc_connected = FALSE
    /\ eventlet_available = TRUE
    /\ config = [ tags |-> {"motor_speed"}, auto_remediate |-> FALSE,
                  cooldown_seconds |-> 2 ]
    /\ NoChaos
    /\ probe = NoProbe
    /\ \E tag_data \in TagDatas :
         load = [ NoLoad EXCEPT !.pc = "raw", !.keys = tag_data.keys,
                                !.failure_condition = tag_data.failure_condition ]

NextConfig ==
    \/ ValidateTagConfig
    \/ LoadedEvaluate

SpecConfig == InitConfig /\ [][NextConfig]_vars


\* ===================================================================== claims
\* The step that is the _evaluate_threshold call for tag t.
EvaluateStep(t) ==
    \E l \in LoopIds :
        /\ loop[l].pc = "eval"
        /\ loop[l].threshold_evaluations # <<>>
        /\ Head(loop[l].threshold_evaluations).tag_name = t
        /\ loop'[l].threshold_evaluations = Tail(loop[l].threshold_evaluations)

\* The ThresholdViolation objects of tag t that are unresolved, among all the
\* objects created so far.
Unresolved(t) ==
    { i \in DOMAIN violations :
        violations[i].tag_name = t /\ ~violations[i].resolved }

\* The unresolved violations of tag t that get_active_violations() returns.
ActiveFor(t) ==
    { i \in GetActiveViolations : violations[i].tag_name = t }

IsDetectionEvent(e) ==
    e.event_type = "threshold_violation" /\ "resolved" \notin DOMAIN e.data

\* C1 (P1): in every reachable state, for every tag, at most one unresolved
\* ThresholdViolation exists for that tag, among all objects created and among
\* those get_active_violations() returns.
C1_AtMostOneActivePerTag ==
    \A t \in DOMAIN TagConfigs :
        /\ Cardinality(Unresolved(t)) <= 1
        /\ Cardinality(ActiveFor(t)) <= 1

\* A tag whose violation is active has had a further violating read.
C1_Witness ==
    \E t \in DOMAIN TagConfigs :
        /\ ev[t].streak >= 2
        /\ Cardinality(ActiveFor(t)) = 1
        /\ Cardinality(GetActiveViolations) = 2

\* C2 (P2): in a run of violating reads of one tag with no non-violating read
\* in between, the first read is a new violation (one ThresholdViolation is
\* created and total_violations grows by one) and every later read is not new
\* and leaves the violation objects, the violation table and total_violations
\* untouched.
C2_OnlyFirstIsNew ==
    [][ \A t \in DOMAIN TagConfigs :
          ( EvaluateStep(t) /\ ev'[t].violation ) =>
            IF ev[t].violation
            THEN /\ ~ev'[t].is_new_violation
                 /\ violations' = violations
                 /\ active_violations' = active_violations
                 /\ total_violations' = total_violations
            ELSE /\ ev'[t].is_new_violation
                 /\ Len(violations') = Len(violations) + 1
                 /\ total_violations' = total_violations + 1 ]_vars

\* C3: a violating read evaluated for a tag that has no unresolved violation is
\* a new violation and leaves the tag with an unresolved violation.
C3_ViolatingReadCreates ==
    [][ \A t \in DOMAIN TagConfigs :
          ( EvaluateStep(t) /\ ev'[t].violation /\ ActiveFor(t) = {} ) =>
            /\ ev'[t].is_new_violation
            /\ ActiveFor(t)' # {} ]_vars

\* C4 (P3): a non-violating read of a tag that has no unresolved violation
\* changes no violation state and emits no resolution event; a non-violating
\* read of a tag that has one resolves it and signals the resolution.
C4_ResolutionIdempotent ==
    [][ \A t \in DOMAIN TagConfigs :
          ( EvaluateStep(t) /\ ~ev'[t].violation ) =>
            IF ActiveFor(t) = {}
            THEN /\ ~ev'[t].should_emit
                 /\ violations' = violations
                 /\ active_violations' = active_violations
                 /\ events' = events
            ELSE /\ ev'[t].should_emit
                 /\ ActiveFor(t)' = {} ]_vars

\* The active-violation counts Scenario A expects after its five reads.
ExpectedCountsA == << 0, 0, 1, 1, 0 >>

\* C5 (Scenario A): from a fresh monitor with motor_speed as its tag, as long as
\* the evaluated reads are 1750, 1750, 2500, 2500, 1750 in this order, the
\* active-violation count after the k-th read is the k-th of 0, 0, 1, 1, 0.
C5_ScenarioA ==
    ( config.tags = {"motor_speed"} ) =>
        \A k \in 1..Len(trace.counts) : trace.counts[k] = ExpectedCountsA[k]

\* The five reads of Scenario A have been evaluated.
C5_Witness ==
    /\ config.tags = {"motor_speed"}
    /\ trace.live
    /\ Len(trace.counts) = Len(ScenarioA)

\* C6: an _evaluate_threshold call appends a threshold_violation detection
\* event only when its read is a new violation.
C6_DetectionEventOnlyWhenNew ==
    [][ \A t \in DOMAIN TagConfigs :
          ( /\ EvaluateStep(t)
            /\ events' # events
            /\ IsDetectionEvent(events'[Len(events')]) ) =>
              ev'[t].is_new_violation ]_vars


\* The callers that have passed the cooldown check for key k and have not yet
\* recorded their trigger: API workers, and the monitor inside the hook.
PastCheck(k) ==
    { w \in Workers : req[w].pc = "launch" /\ req[w].tag_name = k }
    \cup { l \in LoopIds : loop[l].pc = "hook_launch" /\ hook.tag_name = k }

\* C7 (P6): at no time have two check-then-record sequences for the same key
\* both observed not-in-cooldown without either having recorded its trigger.
C7_CooldownGateMutualExclusion ==
    \A k \in RequestTags : Cardinality(PastCheck(k)) <= 1

\* The jobs launched for tag key k, in the order of their launch.
JobsFor(k) ==
    { j \in DOMAIN remediation_jobs : remediation_jobs[j].tag_name = k }

Latest(S) == CHOOSE j \in S : \A i \in S : i <= j

\* The step in which worker w starts a manual trigger for tag key k.
TriggerStep(w, k) ==
    /\ req[w].pc = "idle"
    /\ req'[w].pc # "idle"
    /\ req'[w].tag_name = k

\* C8 (Scenario C): a manual trigger for tag X that starts less than
\* cooldown_seconds after the latest successful trigger for X (at time t) is
\* answered 429 at once, with remaining = cooldown_seconds - (now - t) > 0.
C8_ManualTriggerInCooldown ==
    [][ \A w \in Workers, k \in RequestTags \ {None} :
          ( /\ TriggerStep(w, k)
            /\ JobsFor(k) # {}
            /\ now - remediation_jobs[Latest(JobsFor(k))].start_time
                 < config.cooldown_seconds ) =>
              /\ req'[w].pc = "respond"
              /\ req'[w].status_code = 429
              /\ req'[w].remaining > 0
              /\ req'[w].remaining =
                   config.cooldown_seconds
                   - ( now - remediation_jobs[Latest(JobsFor(k))].start_time ) ]_vars

\* C9: every call of the remediation hook by the monitor carries the action
\* reset and the key of the tag whose evaluation made the call, and the job it
\* launches stores that tag.
C9_HookGetsTriggeringTag ==
    ( hook.calls > 0 ) =>
        /\ hook.action = "reset"
        /\ hook.tag_name = hook.for_tag
        /\ ( hook.job > 0 ) => remediation_jobs[hook.job].tag_name = hook.for_tag

\* C10: within cooldown_seconds of a job launched by auto-remediation for tag X
\* a manual trigger naming X is answered 429, and within cooldown_seconds of a
\* job launched by a manual trigger naming X the auto-remediation hook called
\* for X finds the cooldown active.
C10_SharedCooldownGate ==
    [][ \A k \in DOMAIN TagConfigs :
          /\ \A w \in Workers :
               ( /\ TriggerStep(w, k)
                 /\ hook.job > 0
                 /\ hook.for_tag = k
                 /\ now - remediation_jobs[hook.job].start_time
                      < config.cooldown_seconds ) =>
                   req'[w].status_code = 429
          /\ ( /\ EvaluateStep(k)
               /\ ev'[k].hook_called
               /\ \E j \in JobsFor(k) :
                    now - remediation_jobs[j].start_time < config.cooldown_seconds ) =>
                 hook'.is_in_cooldown ]_vars

\* The rule for outside_range: below the low threshold if it is set, else above
\* the high threshold if it is set.
OutsideRangeLow(tag_config, value) ==
    /\ tag_config.failure_threshold_low # <<>>
    /\ value < tag_config.failure_threshold_low[1]

OutsideRangeHigh(tag_config, value) ==
    /\ tag_config.failure_threshold_high # <<>>
    /\ value > tag_config.failure_threshold_high[1]

\* C11 (P4): for outside_range the evaluator reports a violation iff the low
\* threshold is set and value < low, or the high threshold is set and
\* value > high; the reason is the low one whenever the low rule fires; a value
\* equal to a threshold or between the two is no violation (low=10, high=20:
\* 5 and 25 violate, 10, 15 and 20 do not).
C11_OutsideRange ==
    ( probe.evaluated /\ probe.tag_config.failure_condition = "outside_range" ) =>
        LET c == probe.tag_config
            v == probe.value
        IN /\ probe.violation <=> ( OutsideRangeLow(c, v) \/ OutsideRangeHigh(c, v) )
           /\ OutsideRangeLow(c, v) => probe.violation_reason = "below"
           /\ ( OutsideRangeHigh(c, v) /\ ~OutsideRangeLow(c, v) ) =>
                  probe.violation_reason = "above"
           /\ ( c.failure_threshold_low = <<10>> /\ c.failure_threshold_high = <<20>> ) =>
                  ( probe.violation <=> v \in {5, 25} )

\* The low threshold lies above the high one and both rules fire: the verdict
\* carries the low reason.
C11_Witness ==
    /\ probe.evaluated
    /\ probe.tag_config.failure_condition = "outside_range"
    /\ probe.tag_config.failure_threshold_low = <<20>>
    /\ probe.tag_config.failure_threshold_high = <<10>>
    /\ probe.value = 15
    /\ probe.violation_reason = "below"

\* C12: equals violates iff value == failure_value; not_equals iff
\* value != nominal; below iff the low threshold is set and value < low; above
\* iff the high threshold is set and value > high; an unset threshold never
\* causes a violation.
C12_OtherConditions ==
    probe.evaluated =>
        LET c == probe.tag_config
            v == probe.value
        IN /\ ( c.failure_condition = "equals" ) =>
                ( probe.violation <=> ( c.failure_value = <<v>> ) )
           /\ ( c.failure_condition = "not_equals" ) =>
                ( probe.violation <=> ( v # c.nominal ) )
           /\ ( c.failure_condition = "below" ) =>
                ( probe.violation <=> OutsideRangeLow(c, v) )
           /\ ( c.failure_condition = "above" ) =>
                ( probe.violation <=> OutsideRangeHigh(c, v) )
           /\ ( c.failure_condition \in {"below", "outside_range"}
                /\ c.failure_threshold_low = <<>>
                /\ c.failure_threshold_high = <<>> ) => ~probe.violation
           /\ ( c.failure_condition = "above" /\ c.failure_threshold_high = <<>> ) =>
                ~probe.violation

\* The condition above has met a value equal to its high threshold, which is no
\* violation.
C12_Witness ==
    /\ probe.evaluated
    /\ probe.tag_config.failure_condition = "above"
    /\ probe.tag_config.failure_threshold_high = <<20>>
    /\ probe.value = 20
    /\ ~probe.violation

\* The step in which the hook call of caller c ends.
CallEnds(c) ==
    chaos_call[c].pc # "done" /\ chaos_call'[c].pc = "done"

\* C13 (P7): a hook call made less than STARTUP_GRACE_PERIOD_SECONDS after the
\* engine's construction returns its input unchanged at once and changes no
\* engine state, whatever the injection rate; while the grace period lasts no
\* anomaly is active and none has been recorded.
C13_GracePeriod ==
    [][ /\ \A c \in Callers :
             ( /\ chaos_call[c].pc = "idle"
               /\ chaos_call'[c].pc # "idle"
               /\ now - chaos_start_time < STARTUP_GRACE_PERIOD_SECONDS ) =>
                 /\ chaos_call'[c].pc = "done"
                 /\ chaos_call'[c].result = chaos_call'[c].value
                 /\ active_value_anomalies' = active_value_anomalies
                 /\ injection_history' = injection_history
        /\ ( now' - chaos_start_time < STARTUP_GRACE_PERIOD_SECONDS ) =>
             /\ active_value_anomalies' = EmptyDict
             /\ injection_history' = <<>> ]_vars

\* A call made in the grace period with rate 1.0 and the engine enabled has
\* returned.
C13_Witness ==
    \E c \in Callers :
        /\ chaos_call[c].pc = "done"
        /\ now - chaos_start_time < STARTUP_GRACE_PERIOD_SECONDS
        /\ chaos_enabled
        /\ chaos_config.failure_injection_rate = 10
        /\ chaos_call[c].result = chaos_call[c].value

\* C14 (P5, stability): a hook call that checks a tag while the tag's anomaly is
\* unexpired returns the anomaly's injected value whatever raw value it was
\* given, and records no injection; while the engine stays enabled no step
\* changes or removes an unexpired anomaly.
C14_AnomalyStable ==
    [][ \A t \in DOMAIN active_value_anomalies :
          ( now < active_value_anomalies[t].end_time ) =>
            /\ \A c \in Callers :
                 ( /\ chaos_call[c].pc = "check"
                   /\ chaos_call[c].tag_name = t
                   /\ chaos_call'[c].pc # "check" ) =>
                     /\ chaos_call'[c].pc = "done"
                     /\ chaos_call'[c].result = active_value_anomalies[t].injected_value
                     /\ injection_history' = injection_history
            /\ ( chaos_enabled /\ chaos_enabled' ) =>
                 /\ t \in DOMAIN active_value_anomalies'
                 /\ active_value_anomalies'[t] = active_value_anomalies[t]
                 /\ \A k \in DOMAIN injection_history' \ DOMAIN injection_history :
                      injection_history'[k].tag_name # t ]_vars

\* A call given a raw value other than the one the anomaly was injected for has
\* returned the anomaly's injected value while the anomaly is unexpired.
C14_Witness ==
    \E c \in Callers :
        /\ chaos_call[c].pc = "done"
        /\ chaos_call[c].tag_name \in DOMAIN active_value_anomalies
        /\ LET anomaly == active_value_anomalies[chaos_call[c].tag_name]
           IN /\ now < anomaly.end_time
              /\ chaos_call[c].value # anomaly.original_value
              /\ chaos_call[c].result = anomaly.injected_value
        /\ Len(injection_history) = 1

\* C15 (P5 / Scenario B, expiry): the hook call that finds a tag's anomaly
\* expired and evicts it returns the original input value, whether the per-tag
\* injection cooldown counted from the tag's last injection is still running or
\* has elapsed, and also at rate 1.0.
C15_ExpiryReturnsOriginal ==
    [][ \A c \in Callers :
          ( /\ CallEnds(c)
            /\ chaos_call[c].evicted
            /\ chaos_call[c].tag_name \in DOMAIN last_injection_time ) =>
              chaos_call'[c].result = chaos_call[c].value ]_vars

C17_StatisticsTerminates ==
    \A w \in Workers :
        ( query[w].method = "get_statistics" /\ query[w].pc = "active_violations" )
            ~> ( /\ query[w].pc = "done"
                 /\ DOMAIN query[w].result =
                      { "uptime_seconds", "total_tag_reads", "total_violations",
                        "active_violations" } )


\* The loop tasks that are alive, and the step by which task l begins a poll
\* cycle.
AliveLoops == { l \in LoopIds : loop[l].pc # "stopped" }

CycleStarts(l) == loop[l].pc = "read" /\ loop'[l].pc \in {"eval", "sleep"}

\* C18: start() on a stopped monitor makes it running, records the device's
\* current connectivity, emits exactly one connection event (connection_restored
\* if connected, connection_lost otherwise) and schedules one loop; while the
\* monitor is running no step, start() included, schedules a second loop.
C18_StartOnce ==
    [][ /\ ( ~running /\ running' ) =>
             /\ last_connection_state' = plc_connected
             /\ Len(events') >= 1
             /\ events'[Len(events')].event_type =
                  ( IF plc_connected THEN "connection_restored" ELSE "connection_lost" )
             /\ events' = DequeAppend(events, events'[Len(events')], EventsMaxLen)
             /\ thread' \notin AliveLoops
             /\ AliveLoops' = AliveLoops \cup {thread'}
             /\ loop'[thread'].pc = "read"
             /\ total_reads' = total_reads
             /\ active_violations' = active_violations
        /\ ( running /\ running' ) =>
             /\ AliveLoops' \subseteq AliveLoops
             /\ thread' = thread ]_vars

\* A monitor that was started, stopped and started again with the device
\* connected: its second start has emitted connection_restored and scheduled a
\* fresh loop.
C18_Witness ==
    /\ running
    /\ thread # 0
    /\ loop[thread].pc = "read"
    /\ loop[thread].cycles = 0
    /\ Len(events) >= 2
    /\ events[Len(events)].event_type = "connection_restored"
    /\ events[Len(events) - 1].event_type \in {"connection_restored", "connection_lost"}
    /\ last_connection_state

\* C19: stop() returns with the monitor stopped, and once it has returned the
\* loop it was to end begins no further poll cycle (a cycle in flight may
\* complete).
C19_StopEndsLoop ==
    [][ /\ ( running /\ ~running' /\ thread # 0 ) =>
             ( loop'[thread].pc = "stopped" \/ loop'[thread].retired )
        /\ \A l \in LoopIds :
             ( loop[l].retired /\ loop'[l].retired ) => ~CycleStarts(l) ]_vars

\* C20: an exception raised inside a poll cycle is caught at the cycle
\* boundary: the monitor's running flag is as it was, the loop task is alive and
\* at its sleep, and the next thing it does is to return to the head of the
\* loop for the next cycle (unless stop() ends it first).
C20_CycleExceptionCaught ==
    [][ \A l \in LoopIds :
          /\ ( loop'[l].error /\ ~loop[l].error ) =>
               ( running' = running /\ loop'[l].pc = "sleep" )
          /\ ( loop[l].error /\ loop'[l].pc # loop[l].pc ) =>
               \/ loop'[l].pc = "read"
               \/ running /\ ~running' /\ loop'[l].pc = "stopped" ]_vars

\* A running monitor whose loop has published a read, met an exception in the
\* rest of that cycle and is at its sleep.
C20_Witness ==
    \E l \in LoopIds :
        /\ running
        /\ loop[l].error
        /\ loop[l].pc = "sleep"
        /\ loop[l].cycles > 0
        /\ total_reads > 0


\* C21: an exception raised while one tag's threshold is evaluated does not
\* prevent the evaluation of the remaining tags read in that cycle: the loop
\* is still in its evaluations, with the tags after the failed one pending.
C21_EvaluationIsolated ==
    [][ \A l \in LoopIds :
          ( /\ loop[l].pc = "eval"
            /\ Len(loop[l].threshold_evaluations) >= 2
            /\ loop'[l].error /\ ~loop[l].error ) =>
              /\ loop'[l].pc = "eval"
              /\ loop'[l].threshold_evaluations =
                   Tail(loop[l].threshold_evaluations) ]_vars

\* The step by which loop l logs a threshold event of tag t.
LogsThresholdEvent(l, t) ==
    /\ loop[l].pc = "eval"
    /\ loop[l].threshold_evaluations # <<>>
    /\ Head(loop[l].threshold_evaluations).tag_name = t
    /\ loop'[l].threshold_evaluations = Tail(loop[l].threshold_evaluations)
    /\ events' # events

\* C25: the events of a cycle are logged in the order the tags were read, each
\* tag's tag_read event before that tag's threshold_violation or resolution
\* event: when the threshold event of a tag is logged, the tag_read event of
\* that read is not still waiting to be logged.
C25_TagReadBeforeThreshold ==
    [][ \A l \in LoopIds, t \in DOMAIN TagConfigs :
          LogsThresholdEvent(l, t) =>
            ~ \E i \in 1..Len(loop'[l].events_to_emit) :
                /\ loop'[l].events_to_emit[i].event_type = "tag_read"
                /\ loop'[l].events_to_emit[i].tag_name = t ]_vars

\* The step by which loop l completes a poll cycle.
CycleCompletes(l) ==
    /\ loop[l].pc = "eval"
    /\ loop'[l].pc = "sleep"
    /\ ~loop'[l].error

\* C26: a completed poll cycle logs its queued tag_read events and then a
\* connection event exactly when the device's connectivity differs from the
\* recorded one (connection_restored if connected, connection_lost otherwise),
\* and records the device's connectivity.
C26_ConnectionEdge ==
    [][ \A l \in LoopIds :
          CycleCompletes(l) =>
            /\ last_connection_state' = plc_connected
            /\ events' =
                 DequeExtend(events,
                     loop[l].events_to_emit \o
                       ( IF plc_connected = last_connection_state THEN <<>>
                         ELSE << [ event_type |->
                                     IF plc_connected THEN "connection_restored"
                                     ELSE "connection_lost",
                                   tag_name |-> None,
                                   data |-> [ message |-> "connection" ] ] >> ),
                     EventsMaxLen) ]_vars

\* A completed cycle that found the device disconnected after a connected
\* cycle: connection_lost is the last event of the log, after the tag_read
\* events of the cycle.
C26_Witness ==
    \E l \in LoopIds :
        /\ loop[l].pc = "sleep"
        /\ ~loop[l].error
        /\ loop[l].cycles >= 1
        /\ ~last_connection_state
        /\ ~plc_connected
        /\ Len(events) >= 2
        /\ events[Len(events)].event_type = "connection_lost"
        /\ events[Len(events) - 1].event_type = "tag_read"


\* C22: immediately after inject_connection_loss(duration) with a positive
\* duration has returned, is_connection_lost() returns True.
C22_LostAfterInjection ==
    ( loss_call.fresh /\ now = loss_call.at ) => ConnectionLostNow

\* C29: outside the grace period and with connection_loss enabled, a simulated
\* connection loss lasts exactly its duration: from the most recent injection
\* on (no disable() since), is_connection_lost() returns true until that
\* injection's duration has elapsed and false afterwards.
C29_LossLastsItsDuration ==
    loss_call.applied => ( ConnectionLostNow <=> now < loss_call.end )


\* C28: whenever the engine is disabled there is no active value anomaly, no
\* injection-cooldown entry and no simulated connection loss, and a hook call
\* that ends while the engine is disabled returns its input unchanged.
C28_DisabledMeansClear ==
    /\ [] ( ~chaos_enabled =>
              /\ DOMAIN active_value_anomalies = {}
              /\ DOMAIN last_injection_time = {}
              /\ ~connection_lost )
    /\ [][ \A c \in Callers :
             ( CallEnds(c) /\ ~chaos_enabled ) =>
                 chaos_call'[c].result = chaos_call'[c].value ]_vars

\* C30: the hook commits no new anomaly for a tag within the injection
\* cooldown window of that tag's previous injection, and a call that ends
\* inside the window while the tag has no active anomaly returns the original
\* value.
C30_CooldownRespected ==
    [][ \A c \in Callers :
          ( /\ CallEnds(c)
            /\ IsTagInCooldown(chaos_call'[c].tag_name) ) =>
              /\ injection_history' = injection_history
              /\ chaos_call'[c].tag_name \notin DOMAIN active_value_anomalies =>
                   chaos_call'[c].result = chaos_call'[c].value ]_vars


\* C23: the monitor invokes the remediation hook only on a new-violation edge
\* and only when auto_remediate is enabled: each invocation is made by the
\* evaluation of a violating read of a tag that had no tracked violation, and
\* that evaluation invokes it once; a repeated violating read, a resolution, a
\* non-violating read or a failed read never invokes it.
C23_HookOnNewViolationOnly ==
    [][ hook'.calls # hook.calls =>
          /\ hook'.calls = hook.calls + 1
          /\ config.auto_remediate
          /\ \E l \in LoopIds :
               /\ loop[l].pc = "eval"
               /\ loop[l].threshold_evaluations # <<>>
               /\ LET e == Head(loop[l].threshold_evaluations) IN
                  /\ e.tag_name \notin DOMAIN active_violations
                  /\ e.tag_name \in DOMAIN active_violations'
                  /\ IF TagConfigs[e.tag_name].failure_condition = "outside_range"
                     THEN \/ e.value < TagConfigs[e.tag_name].failure_threshold_low[1]
                          \/ e.value > TagConfigs[e.tag_name].failure_threshold_high[1]
                     ELSE e.value = TagConfigs[e.tag_name].failure_value[1]
                  /\ current_values[e.tag_name].success ]_vars

\* The hook was invoked once for motor_speed and the following violating
\* reads of the tag did not invoke it again.
C23_Witness ==
    /\ config.auto_remediate
    /\ hook.calls = 1
    /\ ev["motor_speed"].violation
    /\ ev["motor_speed"].streak >= 2
    /\ ~ev["motor_speed"].is_new_violation


\* What the violation table holds for tag t.
ViolationState(t) ==
    IF t \in DOMAIN active_violations
    THEN << violations[active_violations[t]] >>
    ELSE <<>>

\* The step by which loop l publishes the results of its batch read.
PublishesReads(l) == loop[l].pc = "read" /\ loop'[l].pc = "eval"

C27_NoLockAcrossReadOrSleep ==
    \A l \in LoopIds :
        /\ lock = LoopThread(l) => loop[l].pc = "locked"
        /\ loop[l].pc \in {"read", "publish", "sleep", "stopped"} => lock # LoopThread(l)

\* A loop that has read the device without the lock holds it to publish the
\* results of that read.
C27_Witness ==
    \E l \in LoopIds :
        /\ lock = LoopThread(l)
        /\ loop[l].pc = "locked"
        /\ DOMAIN loop[l].values_to_store = config.tags
        /\ loop[l].cycles >= 2

\* C31: whenever the chaos hook injects a value anomaly for a tag, the injected
\* value violates that tag's failure condition when _evaluate_threshold
\* evaluates it, whatever the original value was: every injection on record and
\* every active anomaly carries a violating value.
C31_InjectedValueViolates ==
    /\ \A k \in DOMAIN injection_history :
         Evaluate(TagConfigs[injection_history[k].tag_name],
                  injection_history[k].injected_value)[1]
    /\ \A t \in DOMAIN active_value_anomalies :
         Evaluate(TagConfigs[t], active_value_anomalies[t].injected_value)[1]

\* The step in which the launch of the job the hook asked for fails: it is
\* rejected or raises, and no job is recorded.
LaunchFails(l) ==
    /\ loop[l].pc = "hook_launch"
    /\ loop'[l].pc # "hook_launch"
    /\ remediation_jobs' = remediation_jobs

\* C32: a failure of the remediation trigger never propagates into the polling
\* loop: the cycle goes on with the evaluations and the queued events it still
\* has (the remaining tags are processed, the cycle ends without an error), and
\* the violation that caused the trigger stays active and unresolved.
C32_HookFailureContained ==
    [][ \A l \in LoopIds :
          LaunchFails(l) =>
            /\ loop'[l].pc = "eval"
            /\ ~loop'[l].error
            /\ loop'[l].threshold_evaluations = loop[l].threshold_evaluations
            /\ loop'[l].events_to_emit = loop[l].events_to_emit
            /\ hook.for_tag \in DOMAIN active_violations'
            /\ ~violations'[active_violations'[hook.for_tag]].resolved
            /\ violations' = violations ]_vars

\* The launch for a violation of the first tag has failed and the cycle has
\* gone on to evaluate the second tag and to finish.
C32_Witness ==
    \E l \in LoopIds :
        /\ loop[l].pc = "sleep"
        /\ ~loop[l].error
        /\ hook.calls = 1
        /\ hook.for_tag = "light"
        /\ ~hook.is_in_cooldown
        /\ hook.job = 0
        /\ remediation_jobs = <<>>
        /\ ev["motor_speed"].tag_name = "motor_speed"
        /\ "light" \in DOMAIN active_violations
        /\ ~violations[active_violations["light"]].resolved

\* The cooldown timers and the job table.
TriggerBookkeeping ==
    << remediation_jobs, last_remediation_time, last_remediation_time_global >>

\* The step is the successful launch of a job for tag key k by a manual request
\* or by the monitor's hook: one record is added and k's timer is set to now.
LaunchSucceeds(k) ==
    /\ \/ \E w \in Workers :
            /\ req[w].pc = "launch"
            /\ req[w].tag_name = k
            /\ req'[w].status_code = 200
       \/ \E l \in LoopIds :
            /\ loop[l].pc = "hook_launch"
            /\ hook.tag_name = k
            /\ hook'.job = Len(remediation_jobs) + 1
    /\ Len(remediation_jobs') = Len(remediation_jobs) + 1
    /\ remediation_jobs'[Len(remediation_jobs')].tag_name = k
    /\ remediation_jobs'[Len(remediation_jobs')].status = "pending"
    /\ IF k # None
       THEN /\ last_remediation_time' = DictPut(last_remediation_time, k, now)
            /\ UNCHANGED last_remediation_time_global
       ELSE /\ last_remediation_time_global' = <<now>>
            /\ UNCHANGED last_remediation_time

\* C33: a cooldown timer is updated and a job record is created only when a
\* job was launched successfully: a trigger rejected by the cooldown (429, or
\* the hook's early return), a missing job template (404) and a failed or
\* raising launch (500, or the hook's catch) leave every cooldown timer and the
\* job table unchanged.
C33_BookkeepingOnlyOnLaunch ==
    [][ /\ TriggerBookkeeping' # TriggerBookkeeping =>
             \E k \in RequestTags : LaunchSucceeds(k)
        /\ \A w \in Workers :
             ( /\ req[w].pc \in {"idle", "launch"}
               /\ req'[w].pc = "respond"
               /\ req'[w].status_code \in {429, 404, 500} ) =>
                 UNCHANGED TriggerBookkeeping
        /\ \A l \in LoopIds :
             ( /\ loop[l].pc \in {"eval", "hook_launch"}
               /\ loop'[l] # loop[l]
               /\ hook'.job = 0 ) =>
                 UNCHANGED TriggerBookkeeping ]_vars

\* A request has been rejected with 500 after a job of an earlier trigger had
\* been recorded, and the hook has been turned away by the cooldown.
C33_Witness ==
    /\ req["w1"].pc = "respond"
    /\ req["w1"].status_code = 500
    /\ Len(remediation_jobs) = 1
    /\ hook.calls = 1
    /\ hook.is_in_cooldown
    /\ hook.job = 0

\* C34: pruning of the cooldown bookkeeping never changes the outcome of a
\* cooldown check: for every tag key the in-cooldown verdict right after the
\* cleanup of get_remediation_status is the verdict right before it, because
\* only entries that already pass the elapsed-time check are removed.
C34_PruningKeepsVerdict ==
    [][ ( last_remediation_time' # last_remediation_time /\ now' = now
          /\ remediation_jobs' = remediation_jobs ) =>
          \A k \in RequestTags \cup config.tags :
            IsTagInRemediationCooldown(k)[1]' = IsTagInRemediationCooldown(k)[1] ]_vars

\* C35: a remediation job record is never removed from the job table, and once
\* its status is successful or failed neither its status nor its end time
\* changes again, whatever the later status polls return.
C35_FinishedJobFrozen ==
    [][ /\ Len(remediation_jobs') >= Len(remediation_jobs)
        /\ \A j \in DOMAIN remediation_jobs :
             /\ remediation_jobs'[j].job_id = remediation_jobs[j].job_id
             /\ remediation_jobs[j].status \in FinishedStatuses =>
                  /\ remediation_jobs'[j].status = remediation_jobs[j].status
                  /\ remediation_jobs'[j].end_time = remediation_jobs[j].end_time
      ]_vars

\* C36: when the status endpoint first observes that a remediation job with a
\* tag has finished successfully, the monitor's active violation for that tag
\* is cleared: after that step get_active_violations() returns no violation of
\* the tag.
C36_SuccessClearsViolation ==
    [][ \A j \in DOMAIN remediation_jobs :
          ( /\ remediation_jobs[j].status # "successful"
            /\ remediation_jobs'[j].status = "successful"
            /\ remediation_jobs[j].tag_name # None ) =>
              \A i \in GetActiveViolations' :
                violations'[i].tag_name # remediation_jobs[j].tag_name ]_vars

\* The TagConfig fields that the evaluation of a failure condition reads
\* beside nominal (monitor.py:275-303).
FieldsUsed(failure_condition) ==
    CASE failure_condition = "equals" -> { "failure_value" }
      [] failure_condition = "outside_range" ->
           { "failure_threshold_low", "failure_threshold_high" }
      [] failure_condition = "below" -> { "failure_threshold_low" }
      [] failure_condition = "above" -> { "failure_threshold_high" }
      [] OTHER -> {}

\* C37: every tag configuration accepted by the load-time validation carries
\* the fields the evaluation of its failure condition uses (equals:
\* failure_value; outside_range: both thresholds; below: the low threshold;
\* above: the high threshold), and tag data that lacks one of them is rejected
\* at load time.
C37_AcceptedConfigIsComplete ==
    /\ load.pc = "loaded" =>
         \A field \in FieldsUsed(load.failure_condition) :
           IsSet(load.tag_config[field])
    /\ ( /\ load.pc \in {"loaded", "rejected"}
         /\ \E field \in FieldsUsed(load.failure_condition) :
              field \notin load.keys ) =>
           load.pc = "rejected"

\* The step in which loop task l queues the value of a successfully read tag
\* for evaluation.
QueuesEvaluation(l) ==
    /\ loop[l].pc = "hook"
    /\ Len(loop'[l].threshold_evaluations) > Len(loop[l].threshold_evaluations)

\* C38: after enable() has been called on the chaos engine, the values the
\* monitor reads in later poll cycles pass through the injection hook, whether
\* or not chaos was enabled in the configuration at assembly: a value read
\* while the engine was enabled, and queued while it still is, is the value
\* that a hook call for that tag has returned.
C38_EnabledMeansHooked ==
    [][ \A l \in LoopIds :
          ( /\ QueuesEvaluation(l)
            /\ loop[l].chaos_at_read
            /\ chaos_enabled ) =>
              /\ chaos_call[MonitorCaller].pc = "done"
              /\ chaos_call[MonitorCaller].tag_name = NextTag(l) ]_vars

\* C40: in every poll cycle the value stored for a tag in the current-value map
\* (and appended to its history) equals the value that is evaluated against the
\* threshold and reported in the cycle's tag_read event, also when the chaos
\* hook replaced the raw value.
C40_StoredIsEvaluated ==
    /\ \A l \in LoopIds :
         loop[l].pc \in {"publish", "locked"} =>
           \A k \in DOMAIN loop[l].threshold_evaluations :
             LET e == loop[l].threshold_evaluations[k]
             IN e.value = loop[l].values_to_store[e.tag_name].value
    /\ \A l \in LoopIds :
         loop[l].pc = "eval" =>
           \A k \in DOMAIN loop[l].threshold_evaluations :
             LET e == loop[l].threshold_evaluations[k]
             IN e.value = current_values[e.tag_name].value

\* C39: at any time at most one monitor loop task is executing poll cycles,
\* for every interleaving of start() and stop(): a loop task begins a poll
\* cycle only when no other loop task is alive (in a cycle, in its sleep or at
\* the head of its loop), and never are two loop tasks inside the loop at once.
C39_SingleLoop ==
    [][ /\ \A l \in LoopIds :
             CycleStarts(l) =>
               \A k \in LoopIds \ {l} : loop[k].pc = "stopped"
        /\ Cardinality({ l \in LoopIds : loop'[l].pc \in {"eval", "sleep"} }) <= 1
      ]_vars

=============================================================================
